---- MODULE Spec2Model ----
(***************************************************************************)
(* Model of the heron-infra fleet governor: the state store (db.py), the   *)
(* idle/runtime terminator (terminate_idle_instances.py), the status       *)
(* report (show_instances.py) and the budget enforcer                      *)
(* (enforce_budgets.py).                                                   *)
(*                                                                         *)
(* Time is counted in ticks of 30 seconds, so one minute is 2 ticks and    *)
(* the grouping tolerance of 30.0 seconds is 1 tick.  Configured durations *)
(* (MIN_RUNTIME_HOURS, IDLE_SHUTDOWN_HOURS) are held in whole minutes.     *)
(* Money is in cents.  Display names are sequences of one-character        *)
(* strings so that lower() and the substring test are computed.            *)
(***************************************************************************)
EXTENDS Integers, Sequences, FiniteSets, TLC

VARIABLES
    now,               \* time.time(), in ticks
    instances,         \* table instances: id -> row
    gpu_samples,       \* table gpu_samples: rows in insertion (AUTOINCREMENT) order
    costs,             \* table costs: ssh_key -> total_cents
    notifications,     \* notification state: ssh_key -> last_notified_cents
    budgets,           \* budgets.yaml: [defaults, keys]
    MIN_RUNTIME_MIN,   \* MIN_RUNTIME_HOURS of config.env, in minutes
    IDLE_SHUTDOWN_MIN, \* IDLE_SHUTDOWN_HOURS of config.env, in minutes
    idle_pass,         \* outcome of the latest terminate_idle_instances.main run
    budget_pass,       \* outcome of the latest enforce_budgets.main run
    sent,              \* the requests posted by send_discord_notification: ssh_key -> sequence
    ledger_log,        \* the calls of db.update_cost made so far: <<ssh_key, cents>>
    account_costs,     \* account-level ledger: account -> total_cents
    monitor_pass,      \* outcome of the latest monitor.process_account run
    procs              \* the local state of the running processes: name -> record

vars == <<now, instances, gpu_samples, costs, notifications, budgets,
          MIN_RUNTIME_MIN, IDLE_SHUTDOWN_MIN, idle_pass, budget_pass,
          sent, ledger_log, account_costs, monitor_pass, procs>>

-----------------------------------------------------------------------------
(* Bounds of the model *)

MaxTime == 8
MaxBatches == 3
MaxIdleMinutes == 3
MaxRuntimeMinutes == 2
MaxCents == 11500
MaxFailedDeliveries == 2
MaxIncrements == 4
MaxPasses == 2
MaxOldSamples == 4
MaxRunTicks == 3
MaxSamples == 3
MaxSampleTime == 4

-----------------------------------------------------------------------------
(* Characters and display names *)

UPPER == <<"A","B","C","D","E","F","G","H","I","J","K","L","M",
           "N","O","P","Q","R","S","T","U","V","W","X","Y","Z">>
LOWER == <<"a","b","c","d","e","f","g","h","i","j","k","l","m",
           "n","o","p","q","r","s","t","u","v","w","x","y","z">>

\* the lower-case letter of each upper-case letter
LowerOf == [u \in {UPPER[k] : k \in 1..Len(UPPER)} |->
               LOWER[CHOOSE k \in 1..Len(UPPER) : UPPER[k] = u]]

\* str.lower() on one character
LowerChar(c) == IF c \in DOMAIN LowerOf THEN LowerOf[c] ELSE c

\* str.lower()
lower(s) == [k \in 1..Len(s) |-> LowerChar(s[k])]

\* needle in hay
Contains(hay, needle) ==
    \E k \in 1..(Len(hay) - Len(needle) + 1) :
        SubSeq(hay, k, k + Len(needle) - 1) = needle

WHITELIST_MARKER == <<"w","h","i","t","e","l","i","s","t">>
OVERBUDGET_MARKER == <<"o","v","e","r","b","u","d","g","e","t">>

NamePlain == <<"t","r","a","i","n">>
NameWhitelist == <<"m","y","-","W","h","i","t","e","L","i","s","t">>
NameOverbudget == <<"O","V","E","R","B","U","D","G","E","T","-","x">>

-----------------------------------------------------------------------------
(* State store: db.py *)

EmptyTable == [k \in {} |-> 0]

\* first_seen taken from the clock on every upsert
FirstSeenFresh(tbl, instance_id, t) == t

\* first_seen = existing["first_seen"] if existing else now
PreservedFirstSeen(tbl, instance_id, t) ==
    IF instance_id \in DOMAIN tbl THEN tbl[instance_id].first_seen ELSE t

\* initialized written as 0 on every upsert
InitializedReset(tbl, instance_id) == 0

\* initialized = existing["initialized"] if existing else 0
PreservedInitialized(tbl, instance_id) ==
    IF instance_id \in DOMAIN tbl THEN tbl[instance_id].initialized ELSE 0

\* INSERT OR REPLACE of one instance row; first_seen and initialized are kept
\* from an existing row, every other column comes from the provider's record.
upsert_instance(tbl, instance, t) ==
    LET first_seen == PreservedFirstSeen(tbl, instance.id, t)
        initialized == PreservedInitialized(tbl, instance.id)
        row == [name |-> instance.name,
                ip |-> instance.ip,
                status |-> instance.status,
                gpu_count |-> instance.gpus,
                hourly_cost_cents |-> instance.price_cents_per_hour,
                ssh_key_names |-> instance.ssh_key_names,
                first_seen |-> first_seen,
                last_seen |-> t,
                initialized |-> initialized]
    IN  [i \in DOMAIN tbl \cup {instance.id} |->
            IF i = instance.id THEN row ELSE tbl[i]]

\* the WHERE clause left out
get_instances_any_status(tbl) == DOMAIN tbl

\* SELECT * FROM instances WHERE status = 'active' (the ids of the rows)
get_active_instances(tbl) == {i \in DOMAIN tbl : tbl[i].status = "active"}

\* INSERT INTO gpu_samples ... timestamp = time.time()
add_gpu_sample(tbl, instance_id, utilization, gpu_index, t) ==
    Append(tbl, [instance_id |-> instance_id, gpu_index |-> gpu_index,
                 utilization |-> utilization, timestamp |-> t])

\* Stable insertion of one row into a sequence ordered by timestamp
RECURSIVE InsertByTimestamp(_, _)
InsertByTimestamp(sorted, r) ==
    IF sorted = <<>> THEN <<r>>
    ELSE IF sorted[Len(sorted)].timestamp <= r.timestamp THEN Append(sorted, r)
    ELSE Append(InsertByTimestamp(SubSeq(sorted, 1, Len(sorted) - 1), r),
                sorted[Len(sorted)])

\* sorted(samples, key = timestamp), also SQL's ORDER BY timestamp
RECURSIVE SortByTimestamp(_)
SortByTimestamp(samples) ==
    IF samples = <<>> THEN <<>>
    ELSE InsertByTimestamp(SortByTimestamp(SubSeq(samples, 1, Len(samples) - 1)),
                           samples[Len(samples)])

IsSampleSince(r, instance_id, since_timestamp) ==
    r.instance_id = instance_id /\ r.timestamp > since_timestamp

\* SELECT * FROM gpu_samples WHERE instance_id = ? AND timestamp > ? ORDER BY timestamp
get_gpu_samples_since(tbl, instance_id, since_timestamp) ==
    LET Keep(r) == IsSampleSince(r, instance_id, since_timestamp)
    IN  SortByTimestamp(SelectSeq(tbl, Keep))

-----------------------------------------------------------------------------
(* Provider API client: utils_lambda_api.py *)

\* terminate_instance(api_key, instance_ids) applied to the positional
\* arguments of a call.  A call that does not bind both parameters raises
\* TypeError before any request is made; a bound call posts the request and
\* returns the ids the provider reports as terminated.
terminate_instance(args) ==
    IF Len(args) = 2
    THEN [raised |-> FALSE, posted |-> args[2], terminated |-> args[2]]
    ELSE [raised |-> TRUE, posted |-> <<>>, terminated |-> <<>>]

-----------------------------------------------------------------------------
(* Idle/runtime terminator: terminate_idle_instances.py *)

tolerance == 1

AllZero(group) == \A k \in 1..Len(group) : group[k].utilization = 0

TimePoint(group) ==
    [timestamp |-> group[1].timestamp,
     all_zero |-> AllZero(group),
     gpu_count |-> Len(group)]

\* a sample joins the group when it is within the tolerance of the sample
\* before it
RECURSIVE GroupLoopChained(_, _, _)
GroupLoopChained(rest, current_group, grouped) ==
    IF rest = <<>> THEN Append(grouped, TimePoint(current_group))
    ELSE IF Head(rest).timestamp - current_group[Len(current_group)].timestamp <= tolerance
    THEN GroupLoopChained(Tail(rest), Append(current_group, Head(rest)), grouped)
    ELSE GroupLoopChained(Tail(rest), <<Head(rest)>>,
                          Append(grouped, TimePoint(current_group)))

\* the for loop of group_samples_by_timestamp and the closing of the last group
RECURSIVE GroupLoop(_, _, _)
GroupLoop(rest, current_group, grouped) ==
    IF rest = <<>> THEN Append(grouped, TimePoint(current_group))
    ELSE IF Head(rest).timestamp - current_group[1].timestamp <= tolerance
    THEN GroupLoop(Tail(rest), Append(current_group, Head(rest)), grouped)
    ELSE GroupLoop(Tail(rest), <<Head(rest)>>,
                   Append(grouped, TimePoint(current_group)))

group_samples_by_timestamp(samples) ==
    IF samples = <<>> THEN <<>>
    ELSE LET sorted_samples == SortByTimestamp(samples)
         IN  GroupLoop(Tail(sorted_samples), <<Head(sorted_samples)>>, <<>>)

\* int(IDLE_SHUTDOWN_HOURS * 60 * 0.8)
min_samples == (IDLE_SHUTDOWN_MIN * 8) \div 10

\* RuntimeGate without the comparison against MIN_RUNTIME_HOURS
RuntimeGateNoMinimum(first_seen) == first_seen # 0

\* Condition 1 of check_and_terminate_idle: FALSE where the function returns
\* False, TRUE where it goes on to condition 2.
RuntimeGate(first_seen) ==
    IF first_seen = 0 THEN FALSE
    ELSE IF now - first_seen < 2 * MIN_RUNTIME_MIN THEN FALSE
    ELSE TRUE

\* the time points of the idle window of one instance
IdleWindow(instance_id) ==
    group_samples_by_timestamp(
        get_gpu_samples_since(gpu_samples, instance_id, now - 2 * IDLE_SHUTDOWN_MIN))

CoverageGate(grouped) == Len(grouped) >= min_samples

AllIdle(grouped) == \A k \in 1..Len(grouped) : grouped[k].all_zero

\* check_and_terminate_idle(conn, instance, dry_run): the value returned, whether
\* lambda_api.terminate_instance was called, and the ids posted to the provider.
check_and_terminate_idle(instance_id, dry_run) ==
    LET instance == instances[instance_id]
        grouped == IdleWindow(instance_id)
        call == terminate_instance(<< <<instance_id>> >>)
        No == [ret |-> FALSE, called |-> FALSE, posted |-> <<>>]
    IN  IF ~RuntimeGate(instance.first_seen) THEN No
        ELSE IF ~CoverageGate(grouped) THEN No
        ELSE IF ~AllIdle(grouped) THEN No
        ELSE IF dry_run THEN [ret |-> TRUE, called |-> FALSE, posted |-> <<>>]
        ELSE [ret |-> ~call.raised /\ call.terminated # <<>>,
              called |-> TRUE,
              posted |-> call.posted]

NoIdlePass == [ran |-> FALSE, dry_run |-> FALSE, ret |-> EmptyTable,
               called |-> {}, posted |-> {}, terminated_count |-> 0]

\* main of terminate_idle_instances.py: one check per active instance
TerminateIdlePass(dry_run) ==
    LET active == get_active_instances(instances)
        out == [i \in active |-> check_and_terminate_idle(i, dry_run)]
    IN  [ran |-> TRUE,
         dry_run |-> dry_run,
         ret |-> [i \in active |-> out[i].ret],
         called |-> {i \in active : out[i].called},
         posted |-> {i \in active : out[i].posted # <<>>},
         terminated_count |-> Cardinality({i \in active : out[i].ret})]

-----------------------------------------------------------------------------
(* Status report: show_instances.py *)

RECURSIVE SumUtilization(_)
SumUtilization(group) ==
    IF group = <<>> THEN 0 ELSE Head(group).utilization + SumUtilization(Tail(group))

\* avg_utilization is kept as the pair sum, count
ReportTimePoint(group) ==
    [timestamp |-> group[1].timestamp,
     sum_utilization |-> SumUtilization(group),
     all_zero |-> AllZero(group),
     gpu_count |-> Len(group)]

RECURSIVE ReportGroupLoop(_, _, _)
ReportGroupLoop(rest, current_group, grouped) ==
    IF rest = <<>> THEN Append(grouped, ReportTimePoint(current_group))
    ELSE IF Head(rest).timestamp - current_group[1].timestamp <= tolerance
    THEN ReportGroupLoop(Tail(rest), Append(current_group, Head(rest)), grouped)
    ELSE ReportGroupLoop(Tail(rest), <<Head(rest)>>,
                         Append(grouped, ReportTimePoint(current_group)))

report_group_samples_by_timestamp(samples) ==
    IF samples = <<>> THEN <<>>
    ELSE LET sorted_samples == SortByTimestamp(samples)
         IN  ReportGroupLoop(Tail(sorted_samples), <<Head(sorted_samples)>>, <<>>)

\* "whitelist" in (instance.get("name") or "").lower()
is_whitelisted(instance) == Contains(lower(instance.name), WHITELIST_MARKER)

\* idle_start as the earliest all_zero time point, the scan never stopping
RECURSIVE IdleStartNoBreak(_, _)
IdleStartNoBreak(grouped, idle_start) ==
    IF grouped = <<>> THEN idle_start
    ELSE IdleStartNoBreak(SubSeq(grouped, 1, Len(grouped) - 1),
                          IF grouped[Len(grouped)].all_zero
                          THEN <<grouped[Len(grouped)].timestamp>> ELSE idle_start)

\* the scan for idle_start over the time points, most recent first: the
\* timestamp of the earliest time point of the leading all_zero run, <<>>
\* (None) when the most recent time point is not all_zero
RECURSIVE IdleStart(_, _)
IdleStart(grouped, idle_start) ==
    IF grouped = <<>> THEN idle_start
    ELSE IF grouped[Len(grouped)].all_zero
    THEN IdleStart(SubSeq(grouped, 1, Len(grouped) - 1),
                   <<grouped[Len(grouped)].timestamp>>)
    ELSE idle_start

\* get_instance_stats(conn, instance): the policy fields of the report; None
\* is <<>>, an average is kept as the sum, count pairs it is computed from
get_instance_stats(instance_id) ==
    LET instance == instances[instance_id]
        grouped_24h == report_group_samples_by_timestamp(
            get_gpu_samples_since(gpu_samples, instance_id, now - 2880))
        grouped_idle == report_group_samples_by_timestamp(
            get_gpu_samples_since(gpu_samples, instance_id, now - 2 * IDLE_SHUTDOWN_MIN))
        runtime == IF instance.first_seen # 0 THEN now - instance.first_seen ELSE 0
        runtime_met == runtime >= 2 * MIN_RUNTIME_MIN
        latest == grouped_24h[Len(grouped_24h)]
        InLastHour(s) == s.timestamp > now - 120
        samples_1h == SelectSeq(grouped_24h, InLastHour)
        idle_start == IdleStart(grouped_24h, <<>>)
        has_idle_start == idle_start # <<>>
        idle_met == /\ has_idle_start
                    /\ Len(grouped_idle) >= min_samples
                    /\ \A k \in 1..Len(grouped_idle) : grouped_idle[k].all_zero
    IN  [samples_24h |-> Len(grouped_24h),
         samples_idle_window |-> Len(grouped_idle),
         current_gpu |-> IF grouped_24h = <<>> THEN <<>>
                         ELSE << <<latest.sum_utilization, latest.gpu_count>> >>,
         avg_gpu_1h |-> IF grouped_24h = <<>> \/ samples_1h = <<>> THEN <<>>
                        ELSE <<[k \in 1..Len(samples_1h) |->
                                   <<samples_1h[k].sum_utilization,
                                     samples_1h[k].gpu_count>>]>>,
         idle_duration |-> IF has_idle_start THEN <<now - idle_start[1]>> ELSE <<>>,
         runtime_met |-> runtime_met,
         idle_met |-> idle_met,
         will_terminate |-> has_idle_start /\ runtime_met /\ idle_met]

-----------------------------------------------------------------------------
(* Sampler: the sampling loop of monitor.py process_account *)

\* for gpu_idx, util in enumerate(gpu_utils): db.add_gpu_sample(...); each
\* insert reads the clock, t[k] is the clock at the k-th insert
RECURSIVE AddGpuSamples(_, _, _, _, _)
AddGpuSamples(tbl, instance_id, gpu_utils, gpu_idx, t) ==
    IF gpu_idx >= Len(gpu_utils) THEN tbl
    ELSE AddGpuSamples(add_gpu_sample(tbl, instance_id, gpu_utils[gpu_idx + 1],
                                      gpu_idx, t[gpu_idx + 1]),
                       instance_id, gpu_utils, gpu_idx + 1, t)

\* the latest capture time of an instance's samples, 0 when it has none
RECURSIVE LastSampleTime(_, _)
LastSampleTime(tbl, instance_id) ==
    IF tbl = <<>> THEN 0
    ELSE IF tbl[Len(tbl)].instance_id = instance_id THEN tbl[Len(tbl)].timestamp
    ELSE LastSampleTime(SubSeq(tbl, 1, Len(tbl) - 1), instance_id)

\* the number of sampling passes recorded: each one wrote a row for gpu 0
Batches(tbl) == LET First(r) == r.gpu_index = 0 IN Len(SelectSeq(tbl, First))

-----------------------------------------------------------------------------
(* The idle policy as a state machine *)

IdleInstIds == {"i-1"}

IdleRecords ==
    [id : IdleInstIds,
     name : {NamePlain, NameWhitelist},
     ip : {"10.0.0.1"},
     status : {"active"},
     gpus : {2},
     price_cents_per_hour : {120},
     ssh_key_names : {<<"alice">>}]

GpuReadings == {<<0, 0>>, <<0, 5>>, <<0>>}

NoBudgets == [defaults |-> [limit_cents |-> 0, milestone_interval |-> 0],
              keys |-> EmptyTable]

NoBudgetPass == [ran |-> FALSE]

NoMonitorPass == [ran |-> FALSE, count |-> 0]

InitIdle ==
    /\ now = 1
    /\ instances = EmptyTable
    /\ gpu_samples = <<>>
    /\ costs = EmptyTable
    /\ notifications = EmptyTable
    /\ budgets = NoBudgets
    /\ MIN_RUNTIME_MIN \in {0, MaxRuntimeMinutes}
    /\ IDLE_SHUTDOWN_MIN \in {MaxIdleMinutes - 1, MaxIdleMinutes}
    /\ idle_pass = NoIdlePass
    /\ budget_pass = NoBudgetPass
    /\ sent = EmptyTable
    /\ ledger_log = <<>>
    /\ account_costs = EmptyTable
    /\ monitor_pass = NoMonitorPass
    /\ procs = EmptyTable

\* the clock advances by one tick
Tick ==
    /\ now < MaxTime
    /\ now' = now + 1
    /\ idle_pass' = NoIdlePass
    /\ UNCHANGED <<instances, gpu_samples, costs, notifications, budgets,
                   MIN_RUNTIME_MIN, IDLE_SHUTDOWN_MIN, budget_pass, sent,
                   ledger_log, account_costs, monitor_pass, procs>>

\* The monitor records the provider's view of an instance.  In this state
\* machine it does so when the instance is new or its status has changed.
UpsertInstance ==
    \E instance \in IdleRecords :
        /\ instance.id \in DOMAIN instances =>
               instances[instance.id].status # instance.status
        /\ instances' = upsert_instance(instances, instance, now)
        /\ idle_pass' = NoIdlePass
        /\ UNCHANGED <<now, gpu_samples, costs, notifications, budgets,
                       MIN_RUNTIME_MIN, IDLE_SHUTDOWN_MIN, budget_pass, sent,
                       ledger_log, account_costs, monitor_pass, procs>>

\* The monitor (cron, every minute) samples the accelerators of one active
\* instance that has an address; drift is the time that passes between the
\* first insert and the others.
MonitorSample ==
    \E instance_id \in get_active_instances(instances), gpu_utils \in GpuReadings,
       drift \in 0..1 :
        /\ instances[instance_id].ip # ""
        /\ LET last == LastSampleTime(gpu_samples, instance_id)
           IN  last = 0 \/ last + 2 <= now
        /\ Batches(gpu_samples) < MaxBatches
        /\ now + drift <= MaxTime
        /\ drift = 1 => Len(gpu_utils) > 1
        /\ gpu_samples' =
               AddGpuSamples(gpu_samples, instance_id, gpu_utils, 0,
                             [k \in 1..Len(gpu_utils) |-> IF k = 1 THEN now ELSE now + drift])
        /\ now' = now + drift
        /\ idle_pass' = NoIdlePass
        /\ UNCHANGED <<instances, costs, notifications, budgets,
                       MIN_RUNTIME_MIN, IDLE_SHUTDOWN_MIN, budget_pass, sent,
                       ledger_log, account_costs, monitor_pass, procs>>

\* one run of terminate_idle_instances.py
TerminateIdleMain ==
    \E dry_run \in BOOLEAN :
        /\ idle_pass' = TerminateIdlePass(dry_run)
        /\ UNCHANGED <<now, instances, gpu_samples, costs, notifications, budgets,
                       MIN_RUNTIME_MIN, IDLE_SHUTDOWN_MIN, budget_pass, sent,
                       ledger_log, account_costs, monitor_pass, procs>>

NextIdle == Tick \/ UpsertInstance \/ MonitorSample \/ TerminateIdleMain

SpecIdle == InitIdle /\ [][NextIdle]_vars

-----------------------------------------------------------------------------
(* Properties of the idle policy *)

\* the stored samples of an instance that fall in the idle window
WindowSamples(i) ==
    LET InWindow(r) == r.instance_id = i /\ r.timestamp > now - 2 * IDLE_SHUTDOWN_MIN
    IN  SelectSeq(gpu_samples, InWindow)

AllReadingsZero(i) ==
    \A k \in 1..Len(WindowSamples(i)) : WindowSamples(i)[k].utilization = 0

\* the time points found are at least 80% of one per minute of the window
Coverage80(i) == 10 * Len(IdleWindow(i)) >= 8 * IDLE_SHUTDOWN_MIN

RuntimeReached(i) ==
    /\ instances[i].first_seen # 0
    /\ now - instances[i].first_seen >= 2 * MIN_RUNTIME_MIN

Checked(i) == idle_pass.ran /\ i \in DOMAIN idle_pass.ret

\* the idle pass selected the instance: it returned True for it (terminated,
\* or would terminate in a dry run) or it called the provider's terminate
IdleSelected(i) == Checked(i) /\ (idle_pass.ret[i] \/ i \in idle_pass.called)

\* C1: a machine past the minimum runtime, with at least 80% coverage of the
\* idle window and every accelerator at 0% in every time point, is terminated
\* by the pass (or reported as would-terminate in a dry run); and with any
\* reading above 0 in the window the call returns False and requests nothing.
C1_IdleMachineIsTerminated ==
    \A i \in DOMAIN instances :
        Checked(i) =>
            /\ (RuntimeReached(i) /\ Coverage80(i) /\ AllReadingsZero(i))
                   => idle_pass.ret[i]
            /\ ~AllReadingsZero(i)
                   => (~idle_pass.ret[i] /\ i \notin idle_pass.called)

\* C2: a machine whose display name contains the allowlist marker is selected
\* neither by the idle pass nor by the report's will_terminate.
C2_AllowlistedNeverEligible ==
    \A i \in get_active_instances(instances) :
        is_whitelisted(instances[i]) =>
            /\ ~get_instance_stats(i).will_terminate
            /\ ~IdleSelected(i)

C4_CoverageGate ==
    \A i \in DOMAIN instances :
        (Checked(i) /\ ~Coverage80(i)) => ~IdleSelected(i)

-----------------------------------------------------------------------------
(* Cost ledger: db.py *)

\* update_cost with SET total_cents = excluded.total_cents on conflict
update_cost_overwrite(tbl, ssh_key, cents_to_add) ==
    [k \in DOMAIN tbl \cup {ssh_key} |-> IF k # ssh_key THEN tbl[k] ELSE cents_to_add]

\* INSERT ... ON CONFLICT(ssh_key) DO UPDATE SET total_cents = total_cents + excluded.total_cents
update_cost(tbl, ssh_key, cents_to_add) ==
    [k \in DOMAIN tbl \cup {ssh_key} |->
        IF k # ssh_key THEN tbl[k]
        ELSE IF ssh_key \in DOMAIN tbl THEN tbl[ssh_key] + cents_to_add
        ELSE cents_to_add]

\* SELECT * FROM costs ORDER BY total_cents DESC, as the sequence of the keys
RECURSIVE get_all_costs(_)
get_all_costs(tbl) ==
    IF DOMAIN tbl = {} THEN <<>>
    ELSE LET top == CHOOSE k \in DOMAIN tbl : \A j \in DOMAIN tbl : tbl[j] <= tbl[k]
         IN  <<top>> \o get_all_costs([j \in DOMAIN tbl \ {top} |-> tbl[j]])

-----------------------------------------------------------------------------
(* Notification state of the state store *)

\* the row of a key as a sequence: empty for None
get_budget_notification(tbl, ssh_key) ==
    IF ssh_key \in DOMAIN tbl THEN <<[last_notified_cents |-> tbl[ssh_key]]>> ELSE <<>>

update_budget_notification(tbl, ssh_key, cents) ==
    [k \in DOMAIN tbl \cup {ssh_key} |-> IF k = ssh_key THEN cents ELSE tbl[k]]

-----------------------------------------------------------------------------
(* Budget enforcer: enforce_budgets.py *)

\* limit_cents of a key is <<>> for "default", None or absent, <<n>> for the
\* number n and a sequence of two or more characters for a text;
\* discord_webhook is "" for None or absent
DigitOf ==
    [c \in {"0", "1", "2", "3", "4", "5", "6", "7", "8", "9"} |->
        CASE c = "0" -> 0 [] c = "1" -> 1 [] c = "2" -> 2 [] c = "3" -> 3
          [] c = "4" -> 4 [] c = "5" -> 5 [] c = "6" -> 6 [] c = "7" -> 7
          [] c = "8" -> 8 [] c = "9" -> 9]

IsText(limit) == Len(limit) >= 2

\* int(limit) raises ValueError: a text with a character that is no digit
IntRaises(limit) ==
    IsText(limit) /\ \E n \in 1..Len(limit) : limit[n] \notin DOMAIN DigitOf

RECURSIVE ParseDigits(_, _)
ParseDigits(text, acc) ==
    IF text = <<>> THEN acc
    ELSE ParseDigits(Tail(text), 10 * acc + DigitOf[Head(text)])

\* int(limit) where it returns
IntOf(limit) == IF IsText(limit) THEN ParseDigits(limit, 0) ELSE limit[1]

KeyLimit(data, ssh_key) ==
    IF ssh_key \in DOMAIN data.keys THEN data.keys[ssh_key].limit_cents ELSE <<>>

\* get_limit_for_key raises
LimitRaises(data, ssh_key) ==
    KeyLimit(data, ssh_key) # <<>> /\ IntRaises(KeyLimit(data, ssh_key))

\* get_limit_for_key where it returns
get_limit_for_key(data, ssh_key) ==
    LET limit == KeyLimit(data, ssh_key)
    IN  IF limit = <<>> THEN data.defaults.limit_cents ELSE IntOf(limit)

get_webhook_for_key(data, ssh_key) ==
    IF ssh_key \in DOMAIN data.keys THEN data.keys[ssh_key].discord_webhook ELSE ""

\* "overbudget" in (instance.get("name") or "").lower()
is_overbudget_allowed(instance) == Contains(lower(instance.name), OVERBUDGET_MARKER)

\* send_discord_notification: the value returned and the request posted; ok
\* is whether requests.post and raise_for_status go through
send_discord_notification(webhook_url, ssh_key, spent_cents, limit_cents, is_over_budget, ok) ==
    IF webhook_url = "" THEN [ret |-> FALSE, posts |-> <<>>]
    ELSE [ret |-> ok,
          posts |-> <<[spent_cents |-> spent_cents, limit_cents |-> limit_cents,
                       is_over_budget |-> is_over_budget, delivered |-> ok]>>]

\* last_notified = notif["last_notified_cents"] if notif else 0
LastNotified(tbl, ssh_key) ==
    LET notif == get_budget_notification(tbl, ssh_key)
    IN  IF notif # <<>> THEN notif[1].last_notified_cents ELSE 0

\* (cents // milestone_interval) * milestone_interval
MilestoneOf(cents, milestone_interval) == (cents \div milestone_interval) * milestone_interval

\* MilestoneCrossed without the comparison against the last milestone
MilestoneCrossedEveryPass(current_milestone, last_milestone) == current_milestone > 0

MilestoneCrossed(current_milestone, last_milestone) ==
    current_milestone > last_milestone /\ current_milestone > 0

\* the posts of one call site, marked with the call site
Tag(posts, origin) ==
    [k \in 1..Len(posts) |->
        [origin |-> origin, spent_cents |-> posts[k].spent_cents,
         limit_cents |-> posts[k].limit_cents,
         is_over_budget |-> posts[k].is_over_budget,
         delivered |-> posts[k].delivered]]

\* the milestone check left out: nothing read, nothing posted
check_milestone_skipped(tbl, data, ssh_key, spent_cents, limit_cents, ok) ==
    [notifications |-> tbl, posts |-> <<>>, ret |-> FALSE]

\* check_milestone_notification: the notification table afterwards, the
\* requests posted and the value returned
check_milestone_notification(tbl, data, ssh_key, spent_cents, limit_cents, ok) ==
    LET webhook_url == get_webhook_for_key(data, ssh_key)
        milestone_interval == data.defaults.milestone_interval
        last_notified == LastNotified(tbl, ssh_key)
        current_milestone == MilestoneOf(spent_cents, milestone_interval)
        last_milestone == MilestoneOf(last_notified, milestone_interval)
        is_over_budget == spent_cents > limit_cents
        send == send_discord_notification(webhook_url, ssh_key, spent_cents,
                                          limit_cents, is_over_budget, ok)
        No == [notifications |-> tbl, posts |-> <<>>, ret |-> FALSE]
    IN  IF webhook_url = "" THEN No
        ELSE IF ~MilestoneCrossed(current_milestone, last_milestone) THEN No
        ELSE IF send.ret
        THEN [notifications |-> update_budget_notification(tbl, ssh_key, spent_cents),
              posts |-> Tag(send.posts, "milestone"), ret |-> TRUE]
        ELSE [notifications |-> tbl, posts |-> Tag(send.posts, "milestone"),
              ret |-> FALSE]

\* WithinBudget with the boundary on the other side
WithinBudgetStrict(spent_cents, limit) == spent_cents < limit

\* if spent_cents <= limit: return 0
WithinBudget(spent_cents, limit) == spent_cents <= limit

\* OverBudgetAlertDue without the comparison against the limit
OverBudgetAlertEveryPass(last_notified, limit) == TRUE

\* if last_notified < limit
OverBudgetAlertDue(last_notified, limit) == last_notified < limit

\* AlertLastNotified reading the row fetched before the milestone step
AlertLastNotifiedStale(before, after, ssh_key) == LastNotified(before, ssh_key)

\* the over-budget step fetches the row again: before and after are the
\* notification table before and after check_milestone_notification
AlertLastNotified(before, after, ssh_key) == LastNotified(after, ssh_key)

\* AlertRecorded writing only after a delivered post
AlertRecordedWhenDelivered(alert_due, delivered) == alert_due /\ delivered

\* db.update_budget_notification follows send_discord_notification in the
\* over-budget branch whatever the call returned
AlertRecorded(alert_due, delivered) == alert_due

\* the loop over the key's instances given up after its first instance
KeyInstancesFirstOnly(insts, active_instances, ssh_key) ==
    LET all == {i \in active_instances :
                   \E k \in 1..Len(insts[i].ssh_key_names) :
                       insts[i].ssh_key_names[k] = ssh_key}
    IN  IF all = {} THEN {} ELSE {CHOOSE i \in all : TRUE}

\* the ids of the active instances that carry the key
KeyInstances(insts, active_instances, ssh_key) ==
    {i \in active_instances :
        \E k \in 1..Len(insts[i].ssh_key_names) : insts[i].ssh_key_names[k] = ssh_key}

\* enforce_budget_for_key: the notification table afterwards, the requests
\* posted to the endpoint, the number returned, and for the termination loop
\* the instances skipped, those that reached the terminate step (selected),
\* those lambda_api.terminate_instance was called for and those a request
\* was posted to the provider for.  ok[1] and ok[2] are the outcomes of the
\* milestone post and of the over-budget post.
enforce_budget_for_key(tbl, data, insts, ssh_key, spent_cents, active_instances, dry_run, ok) ==
    LET limit == get_limit_for_key(data, ssh_key)
        ms == check_milestone_notification(tbl, data, ssh_key, spent_cents, limit, ok[1])
        key_instances == KeyInstances(insts, active_instances, ssh_key)
        webhook_url == get_webhook_for_key(data, ssh_key)
        last_notified == AlertLastNotified(tbl, ms.notifications, ssh_key)
        alert_due == webhook_url # "" /\ OverBudgetAlertDue(last_notified, limit)
        alert == send_discord_notification(webhook_url, ssh_key, spent_cents, limit,
                                           TRUE, ok[2])
        skipped == {i \in key_instances : is_overbudget_allowed(insts[i])}
        selected == key_instances \ skipped
        call == [i \in selected |-> terminate_instance(<< <<i>> >>)]
        succeeded == {i \in selected : ~call[i].raised /\ call[i].terminated # <<>>}
        Early == [notifications |-> ms.notifications, posts |-> ms.posts, ret |-> 0,
                  limit |-> limit, skipped |-> {}, selected |-> {}, called |-> {},
                  posted |-> {}]
    IN  IF WithinBudget(spent_cents, limit) THEN Early
        ELSE IF key_instances = {} THEN Early
        ELSE [notifications |->
                  IF AlertRecorded(alert_due, alert.ret)
                  THEN update_budget_notification(ms.notifications, ssh_key, spent_cents)
                  ELSE ms.notifications,
              posts |-> IF alert_due THEN ms.posts \o Tag(alert.posts, "overbudget")
                        ELSE ms.posts,
              ret |-> IF dry_run THEN Cardinality(selected) ELSE Cardinality(succeeded),
              limit |-> limit,
              skipped |-> skipped,
              selected |-> selected,
              called |-> IF dry_run THEN {} ELSE selected,
              posted |-> IF dry_run THEN {}
                         ELSE {i \in selected : call[i].posted # <<>>}]

\* the for loop of main over costs.items(); an exception of
\* enforce_budget_for_key ends the loop and the run
RECURSIVE EnforceLoop(_, _, _, _, _)
EnforceLoop(keys, tbl, dry_run, ok, out) ==
    IF keys = <<>> THEN [notifications |-> tbl, out |-> out, raised |-> FALSE]
    ELSE IF LimitRaises(budgets, Head(keys))
    THEN [notifications |-> tbl, out |-> out, raised |-> TRUE]
    ELSE LET ssh_key == Head(keys)
             r == enforce_budget_for_key(tbl, budgets, instances, ssh_key, costs[ssh_key],
                                         get_active_instances(instances), dry_run,
                                         IF ssh_key \in DOMAIN ok THEN ok[ssh_key]
                                         ELSE <<TRUE, TRUE>>)
         IN  EnforceLoop(Tail(keys), r.notifications, dry_run, ok,
                         [k \in DOMAIN out \cup {ssh_key} |->
                             IF k = ssh_key THEN r ELSE out[k]])

-----------------------------------------------------------------------------
(* The budget policy as a state machine *)

BudgetKeys == {"alice", "bob"}

\* i-1 is alice's; i-2 is billed to bob and also carries alice's key
BudgetRecords ==
    [id : {"i-1"}, name : {NamePlain, NameOverbudget}, ip : {"10.0.0.1"},
     status : {"active"}, gpus : {1}, price_cents_per_hour : {120},
     ssh_key_names : {<<"alice">>}]
    \cup
    [id : {"i-2"}, name : {NamePlain}, ip : {"10.0.0.2"},
     status : {"active"}, gpus : {1}, price_cents_per_hour : {120},
     ssh_key_names : {<<"bob", "alice">>}]

\* budgets.yaml as load_budgets returns it: alice has an entry, bob has none
BudgetFiles ==
    {[defaults |-> [limit_cents |-> 9000, milestone_interval |-> 2000],
      keys |-> [k \in {"alice"} |-> c]] :
        c \in {[limit_cents |-> <<>>, discord_webhook |-> ""],
                [limit_cents |-> <<>>, discord_webhook |-> "https://discord.example/hook"],
                [limit_cents |-> <<10000>>, discord_webhook |-> "https://discord.example/hook"]}}

\* the ledger the monitor has built up when the enforcer is first run
InitialLedger == [k \in BudgetKeys |-> 8500]

\* the amounts the monitor adds to a key's total
CostIncrements == [alice |-> {500, 2000}, bob |-> {3000}]

SentOf(ssh_key) == IF ssh_key \in DOMAIN sent THEN sent[ssh_key] ELSE <<>>

Failed(posts) == LET F(e) == ~e.delivered IN Len(SelectSeq(posts, F))

RECURSIVE SumFailed(_, _)
SumFailed(tbl, keys) ==
    IF keys = {} THEN 0
    ELSE LET k == CHOOSE x \in keys : TRUE
         IN  Failed(tbl[k]) + SumFailed(tbl, keys \ {k})

InitBudget ==
    /\ now = 1
    /\ instances = EmptyTable
    /\ gpu_samples = <<>>
    /\ costs = InitialLedger
    /\ notifications = EmptyTable
    /\ budgets \in BudgetFiles
    /\ MIN_RUNTIME_MIN = 0
    /\ IDLE_SHUTDOWN_MIN = MaxIdleMinutes
    /\ idle_pass = NoIdlePass
    /\ budget_pass = NoBudgetPass
    /\ sent = EmptyTable
    /\ ledger_log = <<>>
    /\ account_costs = EmptyTable
    /\ monitor_pass = NoMonitorPass
    /\ procs = EmptyTable

\* the monitor records a new instance
BudgetUpsert ==
    \E instance \in BudgetRecords :
        /\ instance.id \notin DOMAIN instances
        /\ instances' = upsert_instance(instances, instance, now)
        /\ budget_pass' = NoBudgetPass
        /\ UNCHANGED <<now, gpu_samples, costs, notifications, budgets,
                       MIN_RUNTIME_MIN, IDLE_SHUTDOWN_MIN, idle_pass, sent,
                       ledger_log, account_costs, monitor_pass, procs>>

\* the monitor adds the cost accrued by a key's instances to its total
MonitorUpdateCost ==
    \E ssh_key \in BudgetKeys :
        \E cents \in CostIncrements[ssh_key] :
            /\ costs[ssh_key] + cents <= MaxCents
            /\ costs' = update_cost(costs, ssh_key, cents)
            /\ budget_pass' = NoBudgetPass
            /\ UNCHANGED <<now, instances, gpu_samples, notifications, budgets,
                           MIN_RUNTIME_MIN, IDLE_SHUTDOWN_MIN, idle_pass, sent,
                           ledger_log, account_costs, monitor_pass, procs>>

\* the keys of the ledger that have an endpoint: the posts of the others
\* are never made, so only these have an outcome
WebhookKeys == {k \in DOMAIN costs : get_webhook_for_key(budgets, k) # ""}

\* the outcomes of the milestone post and of the over-budget post of one key,
\* TRUE for a post that was not made
PostOutcomes(posts) ==
    <<\A a \in 1..Len(posts) : posts[a].origin = "milestone" => posts[a].delivered,
      \A a \in 1..Len(posts) : posts[a].origin = "overbudget" => posts[a].delivered>>

\* one run of enforce_budgets.py
EnforceBudgetsMain ==
    \E dry_run \in BOOLEAN, ok \in [WebhookKeys -> BOOLEAN \X BOOLEAN] :
        \E run \in {EnforceLoop(get_all_costs(costs), notifications, dry_run, ok,
                                EmptyTable)} :
            \E sent_after \in {[k \in DOMAIN sent \cup DOMAIN run.out |->
                                    IF k \in DOMAIN run.out
                                    THEN SentOf(k) \o run.out[k].posts
                                    ELSE sent[k]]} :
                /\ SumFailed(sent_after, DOMAIN sent_after) <= MaxFailedDeliveries
                /\ \A k \in WebhookKeys :
                       ok[k] = IF k \in DOMAIN run.out
                               THEN PostOutcomes(run.out[k].posts) ELSE <<TRUE, TRUE>>
                /\ notifications' = run.notifications
                /\ sent' = sent_after
                /\ budget_pass' = [ran |-> TRUE, dry_run |-> dry_run, out |-> run.out,
                                   raised |-> run.raised,
                                   last_before |-> [k \in DOMAIN costs |->
                                                       LastNotified(notifications, k)]]
                /\ UNCHANGED <<now, instances, gpu_samples, costs, budgets,
                               MIN_RUNTIME_MIN, IDLE_SHUTDOWN_MIN, idle_pass,
                               ledger_log, account_costs, monitor_pass, procs>>

NextBudget == BudgetUpsert \/ MonitorUpdateCost \/ EnforceBudgetsMain

SpecBudget == InitBudget /\ [][NextBudget]_vars

-----------------------------------------------------------------------------
(* Properties of the budget policy *)

Bucket(cents) == MilestoneOf(cents, budgets.defaults.milestone_interval)

HasWebhook(ssh_key) == get_webhook_for_key(budgets, ssh_key) # ""

\* the latest run of the enforcer handled the key
PassRan(ssh_key) == budget_pass.ran /\ ssh_key \in DOMAIN budget_pass.out

FromMilestone(e) == e.origin = "milestone"
FromOverbudget(e) == e.origin = "overbudget"
WasDelivered(e) == e.delivered

\* the milestone posts and the over-budget posts made for a key so far
Milestones(ssh_key) == SelectSeq(SentOf(ssh_key), FromMilestone)
Alerts(ssh_key) == SelectSeq(SentOf(ssh_key), FromOverbudget)

\* the posts of the latest run for a key
PassPosts(ssh_key) == budget_pass.out[ssh_key].posts

OncePerBucket(posts) ==
    \A a, b \in 1..Len(posts) :
        a < b => Bucket(posts[a].spent_cents) < Bucket(posts[b].spent_cents)

\* the bucket the total is in, if above 0, has a post
BucketNotified(posts, ssh_key) ==
    Bucket(costs[ssh_key]) > 0 =>
        \E a \in 1..Len(posts) : Bucket(posts[a].spent_cents) = Bucket(costs[ssh_key])

ActiveOfKey(ssh_key) == KeyInstances(instances, get_active_instances(instances), ssh_key)

C6_Scenario ==
    /\ PassRan("alice") /\ HasWebhook("alice")
    /\ budget_pass.out["alice"].limit = 10000
    /\ budgets.defaults.milestone_interval = 2000
    /\ MilestoneOf(budget_pass.last_before["alice"], 2000) = 8000
    /\ costs["alice"] = 11500

\* C6 as stated: the pass posts one milestone notification and one over-budget
\* notification.
C6_MilestonePlusOverBudget ==
    C6_Scenario =>
        /\ Len(PassPosts("alice")) = 2
        /\ PassPosts("alice")[1].origin = "milestone"
        /\ PassPosts("alice")[2].origin = "overbudget"

\* C6 (amended): the pass posts exactly one milestone notification, for the
\* total of $115 with over-budget severity; if it is delivered it is the only
\* post of the pass and last_notified becomes $115; the separate over-budget
\* notification follows exactly when that delivery failed and the key has an
\* active instance.
C6_OneNotificationWhenDelivered ==
    C6_Scenario =>
        LET p == PassPosts("alice")
        IN  /\ Len(p) \in {1, 2}
            /\ p[1].origin = "milestone" /\ p[1].is_over_budget
            /\ p[1].spent_cents = 11500
            /\ Len(p) = 2 => p[2].origin = "overbudget"
            /\ Len(p) = 2 <=> (~p[1].delivered /\ ActiveOfKey("alice") # {})
            /\ p[1].delivered => LastNotified(notifications, "alice") = 11500

C6_Witness ==
    /\ C6_Scenario
    /\ ActiveOfKey("alice") # {}
    /\ PassPosts("alice")[1].delivered
    /\ Len(PassPosts("alice")) = 1

\* C7 as stated: a pass over a key that is over budget with last_notified
\* below the limit posts a notification of over-budget severity, and there is
\* never a second over-budget notification.
C7_AlertOnFirstPassOverBudget ==
    \A k \in DOMAIN costs :
        /\ (PassRan(k) /\ HasWebhook(k) /\ costs[k] > budget_pass.out[k].limit
                /\ budget_pass.last_before[k] < budget_pass.out[k].limit)
               => \E a \in 1..Len(PassPosts(k)) : PassPosts(k)[a].is_over_budget
        /\ Len(Alerts(k)) <= 1

\* last_notified as the over-budget step of the latest pass read it
LastAfterMilestone(ssh_key) ==
    IF \E a \in 1..Len(PassPosts(ssh_key)) :
            PassPosts(ssh_key)[a].origin = "milestone" /\ PassPosts(ssh_key)[a].delivered
    THEN costs[ssh_key]
    ELSE budget_pass.last_before[ssh_key]

AlertInPass(ssh_key) ==
    \E a \in 1..Len(PassPosts(ssh_key)) : PassPosts(ssh_key)[a].origin = "overbudget"

\* C7 (amended): for a key with an endpoint, a pass posts the separate
\* over-budget notification exactly when the key is over budget, has at least
\* one active instance and last_notified, read after the milestone step of
\* that pass, is below the limit; the pass then sets last_notified to the
\* total; and no key ever gets a second over-budget notification.
C7_OneShotOverBudgetAlert ==
    \A k \in DOMAIN costs :
        /\ (PassRan(k) /\ HasWebhook(k)) =>
               /\ AlertInPass(k) <=>
                      /\ costs[k] > budget_pass.out[k].limit
                      /\ ActiveOfKey(k) # {}
                      /\ LastAfterMilestone(k) < budget_pass.out[k].limit
               /\ AlertInPass(k) => LastNotified(notifications, k) = costs[k]
        /\ Len(Alerts(k)) <= 1

\* a later pass over the key, still over budget and with an active instance,
\* that posts no over-budget notification
C7_Witness ==
    /\ PassRan("alice") /\ HasWebhook("alice")
    /\ costs["alice"] > budget_pass.out["alice"].limit
    /\ ActiveOfKey("alice") # {}
    /\ Len(Alerts("alice")) = 1
    /\ ~AlertInPass("alice")

C9_OverBudgetReclaimsUnmarked ==
    \A k \in DOMAIN costs :
        (PassRan(k) /\ ~budget_pass.dry_run /\ costs[k] > get_limit_for_key(budgets, k)) =>
            budget_pass.out[k].posted =
                {i \in ActiveOfKey(k) : ~is_overbudget_allowed(instances[i])}

-----------------------------------------------------------------------------
(* The cost ledger as a state machine *)

LedgerKeys == {"alice", "bob"}
LedgerAmounts == {0, 5, 7}

InitLedger ==
    /\ now = 1
    /\ instances = EmptyTable
    /\ gpu_samples = <<>>
    /\ costs = EmptyTable
    /\ notifications = EmptyTable
    /\ budgets = NoBudgets
    /\ MIN_RUNTIME_MIN = 0
    /\ IDLE_SHUTDOWN_MIN = MaxIdleMinutes
    /\ idle_pass = NoIdlePass
    /\ budget_pass = NoBudgetPass
    /\ sent = EmptyTable
    /\ ledger_log = <<>>
    /\ account_costs = EmptyTable
    /\ monitor_pass = NoMonitorPass
    /\ procs = EmptyTable

\* one call of db.update_cost
LedgerUpdateCost ==
    \E ssh_key \in LedgerKeys, cents \in LedgerAmounts :
        /\ Len(ledger_log) < MaxIncrements
        /\ costs' = update_cost(costs, ssh_key, cents)
        /\ ledger_log' = Append(ledger_log, <<ssh_key, cents>>)
        /\ UNCHANGED <<now, instances, gpu_samples, notifications, budgets,
                       MIN_RUNTIME_MIN, IDLE_SHUTDOWN_MIN, idle_pass, budget_pass,
                       sent, account_costs, monitor_pass, procs>>

NextLedger == LedgerUpdateCost

SpecLedger == InitLedger /\ [][NextLedger]_vars

\* the increments logged for a key
IncrementsOf(ssh_key) ==
    LET ForKey(e) == e[1] = ssh_key IN SelectSeq(ledger_log, ForKey)

RECURSIVE SumIncrements(_)
SumIncrements(log) ==
    IF log = <<>> THEN 0 ELSE Head(log)[2] + SumIncrements(Tail(log))

\* C10: a key has a row exactly when it was incremented, its total is the sum
\* of its own increments whatever was interleaved with them, and k increments
\* of the same amount C give k * C.
C10_LedgerAdditive ==
    \A K \in LedgerKeys :
        /\ K \in DOMAIN costs <=> IncrementsOf(K) # <<>>
        /\ K \in DOMAIN costs =>
               /\ costs[K] = SumIncrements(IncrementsOf(K))
               /\ \A C \in LedgerAmounts :
                      (\A n \in 1..Len(IncrementsOf(K)) : IncrementsOf(K)[n][2] = C)
                          => costs[K] = Len(IncrementsOf(K)) * C

\* three increments of 7 to alice with an increment to bob between them
C10_Witness ==
    /\ Len(ledger_log) = 4
    /\ ledger_log[1] = <<"alice", 7>> /\ ledger_log[2] = <<"bob", 5>>
    /\ ledger_log[3] = <<"alice", 7>> /\ ledger_log[4] = <<"alice", 7>>
    /\ costs["alice"] = 21 /\ costs["bob"] = 5

-----------------------------------------------------------------------------
(* State store: initialization flag and account ledger *)

\* the samples at the cutoff deleted as well
cleanup_inclusive(tbl, cutoff) ==
    LET Kept(r) == ~(r.timestamp <= cutoff) IN SelectSeq(tbl, Kept)

\* DELETE FROM gpu_samples WHERE timestamp < ? with the cutoff that
\* cleanup_old_samples computed from the clock
cleanup_old_samples(tbl, cutoff) ==
    LET Kept(r) == ~(r.timestamp < cutoff) IN SelectSeq(tbl, Kept)

\* the UPDATE left out
mark_initialized_skipped(tbl, instance_id) == tbl

\* UPDATE instances SET initialized = 1 WHERE id = ?
mark_initialized(tbl, instance_id) ==
    [i \in DOMAIN tbl |->
        IF i = instance_id THEN [tbl[i] EXCEPT !.initialized = 1] ELSE tbl[i]]

\* SELECT * FROM instances WHERE initialized = 0 AND status = 'active'
get_uninitialized_instances(tbl) ==
    {i \in DOMAIN tbl : tbl[i].initialized = 0 /\ tbl[i].status = "active"}

\* the account-level counterpart of update_cost
update_account_cost(tbl, account, cents_to_add) ==
    [a \in DOMAIN tbl \cup {account} |->
        IF a # account THEN tbl[a]
        ELSE IF account \in DOMAIN tbl THEN tbl[account] + cents_to_add
        ELSE cents_to_add]

-----------------------------------------------------------------------------
(* Monitor: update_costs and process_account of monitor.py *)

\* for inst in instances: db.upsert_instance(conn, inst)
RECURSIVE UpsertAll(_, _, _)
UpsertAll(tbl, listing, t) ==
    IF listing = {} THEN tbl
    ELSE LET inst == CHOOSE x \in listing : TRUE
         IN  UpsertAll(upsert_instance(tbl, inst, t), listing \ {inst}, t)

\* AccruesCost for the instances that have an address only
AccruesCostIfReachable(row) ==
    row.status = "active" /\ row.hourly_cost_cents # 0 /\ row.ip # ""

\* the two continue tests of the loop of update_costs
AccruesCost(row) == row.status = "active" /\ row.hourly_cost_cents # 0

\* int(cost_per_minute) with cost_per_minute = hourly_cents / 60
IntCostPerMinute(hourly_cents) == hourly_cents \div 60

\* the per-key part of the loop of update_costs
RECURSIVE UpdateKeyCosts(_, _, _)
UpdateKeyCosts(tbl, insts, ids) ==
    IF ids = {} THEN tbl
    ELSE LET i == CHOOSE x \in ids : TRUE
             ssh_keys == insts[i].ssh_key_names
             next == IF AccruesCost(insts[i]) /\ ssh_keys # <<>>
                     THEN update_cost(tbl, ssh_keys[1],
                                      IntCostPerMinute(insts[i].hourly_cost_cents))
                     ELSE tbl
         IN  UpdateKeyCosts(next, insts, ids \ {i})

\* total_cost_per_minute assigned in the loop instead of added to
TotalHourlyOverwritten(insts, ids) ==
    IF ids = {} THEN 0
    ELSE LET i == CHOOSE x \in ids : TRUE
         IN  IF AccruesCost(insts[i]) THEN insts[i].hourly_cost_cents ELSE 0

\* total_cost_per_minute, as the sum of the hourly prices (60 times the total)
RECURSIVE TotalHourly(_, _)
TotalHourly(insts, ids) ==
    IF ids = {} THEN 0
    ELSE LET i == CHOOSE x \in ids : TRUE
         IN  (IF AccruesCost(insts[i]) THEN insts[i].hourly_cost_cents ELSE 0)
                 + TotalHourly(insts, ids \ {i})

\* update_costs(conn, instances, account): both ledgers afterwards
update_costs(ctbl, atbl, insts, ids, account) ==
    [costs |-> UpdateKeyCosts(ctbl, insts, ids),
     account_costs |->
         IF TotalHourly(insts, ids) > 0
         THEN update_account_cost(atbl, account, TotalHourly(insts, ids) \div 60)
         ELSE atbl]

\* the initialization loop: mark_initialized for every uninitialized instance
\* with an address whose initialize_machine returned True
RECURSIVE InitializeAll(_, _, _)
InitializeAll(tbl, ids, init_ok) ==
    IF ids = {} THEN tbl
    ELSE LET i == CHOOSE x \in ids : TRUE
         IN  InitializeAll(IF init_ok[i] THEN mark_initialized(tbl, i) ELSE tbl,
                           ids \ {i}, init_ok)

\* the sampling loop: the rows added for every active instance with an
\* address; readings[i] is what get_gpu_utilization returned and the time
\* that passed between the first insert and the others
RECURSIVE SampleAll(_, _, _, _)
SampleAll(tbl, ids, readings, t) ==
    IF ids = {} THEN tbl
    ELSE LET i == CHOOSE x \in ids : TRUE
             gpu_utils == readings[i].gpu_utils
         IN  SampleAll(AddGpuSamples(tbl, i, gpu_utils, 0,
                                     [k \in 1..Len(gpu_utils) |->
                                         IF k = 1 THEN t ELSE t + readings[i].drift]),
                       ids \ {i}, readings, t)

-----------------------------------------------------------------------------
(* Usage report: get_usage_by_key of show_usage.py *)

\* SELECT DISTINCT instance_id, timestamp FROM gpu_samples WHERE timestamp > ?
UsageSamples(since_timestamp) ==
    {<<gpu_samples[n].instance_id, gpu_samples[n].timestamp>> :
        n \in {m \in 1..Len(gpu_samples) : gpu_samples[m].timestamp > since_timestamp}}

\* instance_minutes[instance_id]
InstanceMinutes(since_timestamp, instance_id) ==
    Cardinality({p \in UsageSamples(since_timestamp) : p[1] = instance_id})

\* ssh_keys[0] if ssh_keys else "unknown"
UsageKey(row) == IF row.ssh_key_names # <<>> THEN row.ssh_key_names[1] ELSE "unknown"

RECURSIVE SumUsage(_, _)
SumUsage(since_timestamp, ids) ==
    IF ids = {} THEN 0
    ELSE LET i == CHOOSE x \in ids : TRUE
         IN  instances[i].hourly_cost_cents * InstanceMinutes(since_timestamp, i)
                 + SumUsage(since_timestamp, ids \ {i})

\* get_usage_by_key(conn, since_timestamp): ssh_key -> cost_cents, kept as
\* 60 * cost_cents, the sum of hourly_cents * minutes
get_usage_by_key(since_timestamp) ==
    LET sampled == {i \in DOMAIN instances : InstanceMinutes(since_timestamp, i) > 0}
        keys == {UsageKey(instances[i]) : i \in sampled}
    IN  [k \in keys |->
            SumUsage(since_timestamp, {i \in sampled : UsageKey(instances[i]) = k})]

-----------------------------------------------------------------------------
(* The monitor as a state machine *)

MonitorAccount == "default"

\* what the provider lists: i-1 has an address, i-2 has none yet
MonitorRecords ==
    [id : {"i-1"}, name : {NamePlain}, ip : {"10.0.0.1"},
     status : {"active"}, gpus : {2},
     price_cents_per_hour : {110, 120}, ssh_key_names : {<<"alice">>}]
    \cup
    [id : {"i-1"}, name : {NamePlain}, ip : {"10.0.0.1"},
     status : {"terminated"}, gpus : {2},
     price_cents_per_hour : {120}, ssh_key_names : {<<"alice">>}]
    \cup
    [id : {"i-2"}, name : {NamePlain}, ip : {""},
     status : {"active"}, gpus : {1},
     price_cents_per_hour : {90}, ssh_key_names : {<<"bob", "alice">>}]

Listings ==
    {l \in SUBSET MonitorRecords : \A a, b \in l : a.id = b.id => a = b}

\* what get_gpu_utilization returns: nothing when the connection fails
MonitorReadings ==
    {[gpu_utils |-> <<>>, drift |-> 0], [gpu_utils |-> <<0>>, drift |-> 0],
     [gpu_utils |-> <<0, 5>>, drift |-> 1]}

\* no endpoints, and a limit the ledger of this state machine passes
MonitorBudgets ==
    [defaults |-> [limit_cents |-> 2, milestone_interval |-> 2000],
     keys |-> EmptyTable]

InitMonitor ==
    /\ now = 1
    /\ instances = EmptyTable
    /\ gpu_samples = <<>>
    /\ costs = EmptyTable
    /\ notifications = EmptyTable
    /\ budgets = MonitorBudgets
    /\ MIN_RUNTIME_MIN = 0
    /\ IDLE_SHUTDOWN_MIN = MaxIdleMinutes
    /\ idle_pass = NoIdlePass
    /\ budget_pass = NoBudgetPass
    /\ sent = EmptyTable
    /\ ledger_log = <<>>
    /\ account_costs = EmptyTable
    /\ monitor_pass = NoMonitorPass
    /\ procs = EmptyTable

\* one run of process_account (cron, every minute)
ProcessAccount ==
    /\ monitor_pass.count < MaxPasses
    /\ monitor_pass.ran => monitor_pass.at + 2 <= now
    /\ \E listing \in Listings :
        \E upserted \in {UpsertAll(instances, listing, now)} :
        \E active \in {get_active_instances(upserted)} :
        \E ledgers \in {update_costs(costs, account_costs, upserted, active,
                                     MonitorAccount)} :
        \E to_init \in {{i \in get_uninitialized_instances(upserted) :
                            upserted[i].ip # ""}} :
        \E to_sample \in {{i \in active : upserted[i].ip # ""}} :
        \E init_ok \in [to_init -> BOOLEAN], readings \in [to_sample -> MonitorReadings] :
        \E drift \in {IF \E i \in to_sample : readings[i].drift = 1 THEN 1 ELSE 0} :
            /\ now + drift <= MaxTime
            /\ instances' = InitializeAll(upserted, to_init, init_ok)
            /\ costs' = ledgers.costs
            /\ account_costs' = ledgers.account_costs
            /\ gpu_samples' = SampleAll(gpu_samples, to_sample, readings, now)
            /\ now' = now + drift
            /\ monitor_pass' = [ran |-> TRUE, at |-> now,
                                count |-> monitor_pass.count + 1,
                                costs_before |-> costs,
                                account_before |-> account_costs,
                                listed |-> {inst.id : inst \in listing},
                                active |-> active, init_ok |-> init_ok,
                                readings |-> readings]
            /\ idle_pass' = NoIdlePass
            /\ budget_pass' = NoBudgetPass
            /\ UNCHANGED <<notifications, budgets, MIN_RUNTIME_MIN,
                           IDLE_SHUTDOWN_MIN, sent, ledger_log, procs>>

\* the time until cron starts the next run, one minute after the last
MonitorWait ==
    /\ monitor_pass.ran
    /\ now < monitor_pass.at + 2
    /\ now' = monitor_pass.at + 2
    /\ idle_pass' = NoIdlePass
    /\ UNCHANGED <<instances, gpu_samples, costs, notifications, budgets,
                   MIN_RUNTIME_MIN, IDLE_SHUTDOWN_MIN, budget_pass, sent,
                   ledger_log, account_costs, monitor_pass, procs>>

NextMonitor == MonitorWait \/ ProcessAccount \/ EnforceBudgetsMain

SpecMonitor == InitMonitor /\ [][NextMonitor]_vars

-----------------------------------------------------------------------------
(* Properties of the cost ledger under the monitor *)

LedgerTotal(tbl, k) == IF k \in DOMAIN tbl THEN tbl[k] ELSE 0

\* the machines the latest run found active with a price, and those of them
\* whose first-listed key is k
Billed == {i \in monitor_pass.active : instances[i].hourly_cost_cents # 0}
BilledTo(k) ==
    {i \in Billed : instances[i].ssh_key_names # <<>>
                    /\ instances[i].ssh_key_names[1] = k}

RECURSIVE SumFloorPerMinute(_)
SumFloorPerMinute(ids) ==
    IF ids = {} THEN 0
    ELSE LET i == CHOOSE x \in ids : TRUE
         IN  (instances[i].hourly_cost_cents \div 60) + SumFloorPerMinute(ids \ {i})

RECURSIVE SumHourly(_)
SumHourly(ids) ==
    IF ids = {} THEN 0
    ELSE LET i == CHOOSE x \in ids : TRUE
         IN  instances[i].hourly_cost_cents + SumHourly(ids \ {i})

MonitorKeys == {"alice", "bob"}

\* C11: no step of the monitor or of the budget enforcer removes a key from
\* the ledger or lowers its total.
C11_LedgerNonDecreasing ==
    [][\A k \in DOMAIN costs : k \in DOMAIN costs' /\ costs'[k] >= costs[k]]_vars

\* a key charged by two runs of the monitor, and a run of the enforcer after
C11_Witness ==
    /\ monitor_pass.count = 2
    /\ budget_pass.ran
    /\ LedgerTotal(costs, "alice") > LedgerTotal(monitor_pass.costs_before, "alice")
    /\ LedgerTotal(monitor_pass.costs_before, "alice") > 0

\* C12: after every run of the monitor, each key's total has grown by the
\* per-minute cost of every active priced machine it is the first key of, and
\* the account's total by that of all of them, whatever the outcome of the
\* initialization and of the sampling of those machines was.
C12_AccrualIndependentOfReachability ==
    monitor_pass.ran =>
        /\ \A k \in MonitorKeys :
               LedgerTotal(costs, k) =
                   LedgerTotal(monitor_pass.costs_before, k)
                       + SumFloorPerMinute(BilledTo(k))
        /\ LedgerTotal(account_costs, MonitorAccount) =
               LedgerTotal(monitor_pass.account_before, MonitorAccount)
                   + (SumHourly(Billed) \div 60)

\* a run in which one machine had no address and the other could neither be
\* initialized nor sampled, and both keys were charged
C12_Witness ==
    /\ monitor_pass.ran
    /\ monitor_pass.active = {"i-1", "i-2"}
    /\ instances["i-2"].ip = ""
    /\ "i-1" \in DOMAIN monitor_pass.init_ok /\ ~monitor_pass.init_ok["i-1"]
    /\ monitor_pass.readings["i-1"].gpu_utils = <<>>
    /\ costs["alice"] > LedgerTotal(monitor_pass.costs_before, "alice")
    /\ costs["bob"] > LedgerTotal(monitor_pass.costs_before, "bob")

\* C13: a run of the monitor adds exactly P / 60 per active machine of
\* hourly price P to its first key's total and to the account's total.
C13_ExactPerMinuteIncrement ==
    monitor_pass.ran =>
        /\ \A k \in MonitorKeys :
               60 * (LedgerTotal(costs, k) - LedgerTotal(monitor_pass.costs_before, k))
                   = SumHourly(BilledTo(k))
        /\ 60 * (LedgerTotal(account_costs, MonitorAccount)
                    - LedgerTotal(monitor_pass.account_before, MonitorAccount))
               = SumHourly(Billed)

\* C14: the usage since any time T reported for a key is at most the key's
\* total in the ledger (both sides times 60).
C14_UsageWithinLedger ==
    \A since \in 0..now :
        \A k \in DOMAIN get_usage_by_key(since) :
            get_usage_by_key(since)[k] <= 60 * LedgerTotal(costs, k)

-----------------------------------------------------------------------------
(* The instance table as a state machine *)

\* the provider's record of a machine changes between two listings
StoreRecords ==
    [id : {"i-1"}, name : {NamePlain, NameWhitelist}, ip : {"", "10.0.0.1"},
     status : {"active", "terminated"}, gpus : {2},
     price_cents_per_hour : {120}, ssh_key_names : {<<"alice">>}]
    \cup
    [id : {"i-2"}, name : {NamePlain}, ip : {"10.0.0.2"},
     status : {"active"}, gpus : {1},
     price_cents_per_hour : {90}, ssh_key_names : {<<"bob">>}]

InitStore ==
    /\ now = 1
    /\ instances = EmptyTable
    /\ gpu_samples = <<>>
    /\ costs = EmptyTable
    /\ notifications = EmptyTable
    /\ budgets = NoBudgets
    /\ MIN_RUNTIME_MIN = 0
    /\ IDLE_SHUTDOWN_MIN = MaxIdleMinutes
    /\ idle_pass = NoIdlePass
    /\ budget_pass = NoBudgetPass
    /\ sent = EmptyTable
    /\ ledger_log = <<>>
    /\ account_costs = EmptyTable
    /\ monitor_pass = NoMonitorPass
    /\ procs = EmptyTable

StoreUpsert ==
    \E instance \in StoreRecords :
        /\ instances' = upsert_instance(instances, instance, now)
        /\ UNCHANGED <<now, gpu_samples, costs, notifications, budgets,
                       MIN_RUNTIME_MIN, IDLE_SHUTDOWN_MIN, idle_pass, budget_pass,
                       sent, ledger_log, account_costs, monitor_pass, procs>>

\* the monitor marks a machine it has set up
MarkInitialized ==
    \E instance_id \in get_uninitialized_instances(instances) :
        /\ instances' = mark_initialized(instances, instance_id)
        /\ UNCHANGED <<now, gpu_samples, costs, notifications, budgets,
                       MIN_RUNTIME_MIN, IDLE_SHUTDOWN_MIN, idle_pass, budget_pass,
                       sent, ledger_log, account_costs, monitor_pass, procs>>

NextStore == Tick \/ StoreUpsert \/ MarkInitialized

SpecStore == InitStore /\ [][NextStore]_vars

\* C16: once a machine has a row, no step changes the row's first_seen.
C16_FirstSeenImmutable ==
    [][\A i \in DOMAIN instances :
          /\ i \in DOMAIN instances'
          /\ instances'[i].first_seen = instances[i].first_seen]_vars

\* a machine upserted again later with other provider fields, and initialized
C16_Witness ==
    /\ "i-1" \in DOMAIN instances
    /\ instances["i-1"].last_seen > instances["i-1"].first_seen
    /\ instances["i-1"].status = "terminated"
    /\ instances["i-1"].name = NameWhitelist
    /\ instances["i-1"].initialized = 1

\* C17: a new row is uninitialized; a step that sets the flag of a row changes
\* nothing else in the table; no step clears a set flag, so a machine with the
\* flag set is not among the uninitialized machines after any step.
C17_InitializedMonotone ==
    [][/\ \A i \in DOMAIN instances' \ DOMAIN instances :
              instances'[i].initialized = 0
       /\ \A i \in DOMAIN instances :
              /\ instances[i].initialized = 1 =>
                     /\ instances'[i].initialized = 1
                     /\ i \notin get_uninitialized_instances(instances')
              /\ (instances[i].initialized = 0 /\ instances'[i].initialized = 1) =>
                     instances' = [instances EXCEPT ![i].initialized = 1]]_vars

\* an initialized machine that was seen again as active by a later upsert
C17_Witness ==
    /\ "i-1" \in DOMAIN instances
    /\ instances["i-1"].initialized = 1
    /\ instances["i-1"].status = "active"
    /\ instances["i-1"].last_seen > instances["i-1"].first_seen + 1
    /\ "i-2" \in get_uninitialized_instances(instances)

-----------------------------------------------------------------------------
(* The idle policy and the report over a given instance row *)

\* the row of a machine as the policy may find it: first_seen is 0 where the
\* column is NULL or zero
StatsRows ==
    [name : {NamePlain}, ip : {"10.0.0.1"}, status : {"active"}, gpu_count : {2},
     hourly_cost_cents : {120}, ssh_key_names : {<<"alice">>},
     first_seen : {0, 1}, last_seen : {1}, initialized : {1}]

InitStats ==
    /\ now = 1
    /\ instances \in [{"i-1"} -> StatsRows]
    /\ gpu_samples = <<>>
    /\ costs = EmptyTable
    /\ notifications = EmptyTable
    /\ budgets = NoBudgets
    /\ MIN_RUNTIME_MIN \in {0, MaxRuntimeMinutes - 1}
    /\ IDLE_SHUTDOWN_MIN \in {MaxIdleMinutes - 2, MaxIdleMinutes - 1}
    /\ idle_pass = NoIdlePass
    /\ budget_pass = NoBudgetPass
    /\ sent = EmptyTable
    /\ ledger_log = <<>>
    /\ account_costs = EmptyTable
    /\ monitor_pass = NoMonitorPass
    /\ procs = EmptyTable

NextStats == Tick \/ MonitorSample \/ TerminateIdleMain

SpecStats == InitStats /\ [][NextStats]_vars

\* the time points of the report for the idle window and for the last 24 hours
ReportWindow(i) ==
    report_group_samples_by_timestamp(
        get_gpu_samples_since(gpu_samples, i, now - 2 * IDLE_SHUTDOWN_MIN))
ReportDay(i) ==
    report_group_samples_by_timestamp(
        get_gpu_samples_since(gpu_samples, i, now - 2880))

NoSamples(i) == \A n \in 1..Len(gpu_samples) : gpu_samples[n].instance_id # i

\* C18: a machine whose first_seen is zero or missing is not selected by the
\* idle pass, and the report does not show its runtime condition as met.
C18_FailClosedRuntime ==
    \A i \in DOMAIN instances :
        instances[i].first_seen = 0 =>
            /\ ~IdleSelected(i)
            /\ ~get_instance_stats(i).runtime_met

\* C19: for a machine without stored samples the report gives None for the
\* current utilization, the one-hour average and the idle duration and does
\* not mark it for termination, and the idle pass does not select it.
C19_ZeroSamples ==
    \A i \in DOMAIN instances :
        NoSamples(i) =>
            /\ get_instance_stats(i).current_gpu = <<>>
            /\ get_instance_stats(i).avg_gpu_1h = <<>>
            /\ get_instance_stats(i).idle_duration = <<>>
            /\ ~get_instance_stats(i).will_terminate
            /\ ~IdleSelected(i)

\* the index of the most recent time point that is not all-idle
LastActive(grouped) ==
    CHOOSE n \in 1..Len(grouped) :
        /\ ~grouped[n].all_zero
        /\ \A k \in (n + 1)..Len(grouped) : grouped[k].all_zero

ActiveInWindow(i) ==
    \E k \in 1..Len(ReportWindow(i)) : ~ReportWindow(i)[k].all_zero

-----------------------------------------------------------------------------
(* Further properties of the budget policy *)

\* the total of the key is in a higher, non-zero bucket than last_notified was
\* when the latest pass started
CrossedInPass(k) ==
    /\ Bucket(costs[k]) > Bucket(budget_pass.last_before[k])
    /\ Bucket(costs[k]) > 0

\* C27: a pass over a key with an endpoint whose total is within the limit and
\* has crossed into a new non-zero bucket posts exactly one notification, the
\* milestone one, for that total and without over-budget severity, and
\* selects, requests and counts no instance.
C27_MilestoneWithinBudget ==
    \A k \in DOMAIN costs :
        (PassRan(k) /\ HasWebhook(k) /\ CrossedInPass(k)
            /\ costs[k] <= budget_pass.out[k].limit) =>
            /\ Len(PassPosts(k)) = 1
            /\ PassPosts(k)[1].origin = "milestone"
            /\ ~PassPosts(k)[1].is_over_budget
            /\ PassPosts(k)[1].spent_cents = costs[k]
            /\ budget_pass.out[k].selected = {}
            /\ budget_pass.out[k].called = {}
            /\ budget_pass.out[k].ret = 0

\* a real pass over a key within its limit that has an active instance and
\* crosses from one notified bucket into the next
C27_Witness ==
    /\ PassRan("alice") /\ ~budget_pass.dry_run /\ HasWebhook("alice")
    /\ costs["alice"] <= budget_pass.out["alice"].limit
    /\ budget_pass.last_before["alice"] > 0
    /\ CrossedInPass("alice")
    /\ ActiveOfKey("alice") # {}

\* the keys the latest pass found over their limit
OverBudgetKeys == {k \in DOMAIN costs : costs[k] > budget_pass.out[k].limit}

\* the active machines that list the key and have no marker in their name
Unmarked(k) ==
    {i \in DOMAIN instances :
        /\ instances[i].status = "active"
        /\ \E n \in 1..Len(instances[i].ssh_key_names) :
               instances[i].ssh_key_names[n] = k
        /\ ~Contains(lower(instances[i].name), OVERBUDGET_MARKER)}

\* a real pass where every terminate call failed handled every key of the
\* ledger and every unmarked machine of every key over its limit, and
\* counted no machine
FailuresDoNotAbort ==
    /\ DOMAIN budget_pass.out = DOMAIN costs
    /\ \A k \in OverBudgetKeys :
           /\ budget_pass.out[k].called = Unmarked(k)
           /\ budget_pass.out[k].posted = {} => budget_pass.out[k].ret = 0

-----------------------------------------------------------------------------
(* The budget policy over a budgets.yaml edited by hand *)

\* alice's limit is written as a text: "9500", or "9k" which is no number
ConfigFiles ==
    {[defaults |-> [limit_cents |-> 9000, milestone_interval |-> 2000],
      keys |-> [k \in {"alice"} |->
                   [limit_cents |-> l, discord_webhook |-> "https://discord.example/hook"]]] :
        l \in {<<"9", "5", "0", "0">>, <<"9", "k">>}}

\* alice's total above bob's, and below
ConfigLedgers == {[alice |-> 9500, bob |-> 8500], [alice |-> 8500, bob |-> 9500]}

InitConfig ==
    /\ now = 1
    /\ instances = EmptyTable
    /\ gpu_samples = <<>>
    /\ costs \in ConfigLedgers
    /\ notifications = EmptyTable
    /\ budgets \in ConfigFiles
    /\ MIN_RUNTIME_MIN = 0
    /\ IDLE_SHUTDOWN_MIN = MaxIdleMinutes
    /\ idle_pass = NoIdlePass
    /\ budget_pass = NoBudgetPass
    /\ sent = EmptyTable
    /\ ledger_log = <<>>
    /\ account_costs = EmptyTable
    /\ monitor_pass = NoMonitorPass
    /\ procs = EmptyTable

NextConfig == BudgetUpsert \/ MonitorUpdateCost \/ EnforceBudgetsMain

SpecConfig == InitConfig /\ [][NextConfig]_vars

\* C23: in every run of the enforcer, every key of the ledger whose limit can
\* be read is handled by enforce_budget_for_key, whatever is wrong with the
\* limit of another key.
C23_ConfigErrorOneKeyOnly ==
    budget_pass.ran =>
        \A k \in DOMAIN costs :
            ~LimitRaises(budgets, k) => k \in DOMAIN budget_pass.out

-----------------------------------------------------------------------------
(* Pruning against a concurrent sampler *)

\* older_than_hours=24 of the monitor's cleanup call, in ticks
RETENTION_TICKS == 2880

\* the stored samples after a day without pruning: old ones at ticks
\* 1..MaxOldSamples and possibly a fresh one, in insertion order
RECURSIVE SamplesAt(_, _)
SamplesAt(times, t) ==
    IF t > RETENTION_TICKS + 1 THEN <<>>
    ELSE (IF t \in times
          THEN <<[instance_id |-> "i-1", gpu_index |-> 0, utilization |-> 0,
                  timestamp |-> t]>>
          ELSE <<>>)
         \o SamplesAt(times, IF t < MaxOldSamples THEN t + 1
                             ELSE IF t = MaxOldSamples THEN RETENTION_TICKS + 1
                             ELSE t + 1)

IdlePruner == [pc |-> "idle", cutoff |-> 0, runs |-> 0, removed |-> 0,
               during_write |-> FALSE]
IdleWriter == [pc |-> "idle", timestamp |-> 0, count |-> 0]

InitPrune ==
    /\ now = RETENTION_TICKS + 2
    /\ instances = [i \in {"i-1"} |->
                       [name |-> NamePlain, ip |-> "10.0.0.1", status |-> "active",
                        gpu_count |-> 1, hourly_cost_cents |-> 120,
                        ssh_key_names |-> <<"alice">>, first_seen |-> 1,
                        last_seen |-> 1, initialized |-> 1]]
    /\ \E times \in SUBSET ((1..MaxOldSamples) \cup {RETENTION_TICKS + 1}) :
           gpu_samples = SamplesAt(times, 1)
    /\ costs = [k \in {"alice"} |-> 2]
    /\ notifications = EmptyTable
    /\ budgets = NoBudgets
    /\ MIN_RUNTIME_MIN = 0
    /\ IDLE_SHUTDOWN_MIN = MaxIdleMinutes
    /\ idle_pass = NoIdlePass
    /\ budget_pass = NoBudgetPass
    /\ sent = EmptyTable
    /\ ledger_log = <<>>
    /\ account_costs = [a \in {"default"} |-> 2]
    /\ monitor_pass = NoMonitorPass
    /\ procs = [p \in {"pruner", "writer"} |->
                   IF p = "pruner" THEN IdlePruner ELSE IdleWriter]

PruneUnchanged ==
    UNCHANGED <<instances, costs, notifications, budgets, MIN_RUNTIME_MIN,
                IDLE_SHUTDOWN_MIN, idle_pass, budget_pass, sent, ledger_log,
                account_costs, monitor_pass>>

PruneTick ==
    /\ now < RETENTION_TICKS + MaxOldSamples
    /\ now' = now + 1
    /\ UNCHANGED <<gpu_samples, procs>>
    /\ PruneUnchanged

\* cleanup_old_samples: cutoff = time.time() - older_than_hours * 3600
PruneCutoff ==
    /\ procs["pruner"].pc = "idle"
    /\ procs["pruner"].runs < MaxPasses
    /\ procs' = [procs EXCEPT !["pruner"].pc = "delete",
                              !["pruner"].cutoff = now - RETENTION_TICKS]
    /\ UNCHANGED <<now, gpu_samples>>
    /\ PruneUnchanged

\* cleanup_old_samples: the DELETE statement and the commit
PruneDelete ==
    /\ procs["pruner"].pc = "delete"
    /\ gpu_samples' = cleanup_old_samples(gpu_samples, procs["pruner"].cutoff)
    /\ procs' = [procs EXCEPT !["pruner"].pc = "idle",
                              !["pruner"].runs = @ + 1,
                              !["pruner"].removed = Len(gpu_samples) - Len(gpu_samples'),
                              !["pruner"].during_write = procs["writer"].pc = "insert"]
    /\ UNCHANGED now
    /\ PruneUnchanged

\* add_gpu_sample: the arguments of the INSERT are evaluated, time.time() included
WriteTimestamp ==
    /\ procs["writer"].pc = "idle"
    /\ procs["writer"].count < MaxBatches
    /\ procs' = [procs EXCEPT !["writer"].pc = "insert",
                              !["writer"].timestamp = now]
    /\ UNCHANGED <<now, gpu_samples>>
    /\ PruneUnchanged

\* add_gpu_sample: the INSERT statement and the commit
WriteInsert ==
    /\ procs["writer"].pc = "insert"
    /\ gpu_samples' = add_gpu_sample(gpu_samples, "i-1", 0, 0, procs["writer"].timestamp)
    /\ procs' = [procs EXCEPT !["writer"].pc = "idle",
                              !["writer"].count = @ + 1]
    /\ UNCHANGED now
    /\ PruneUnchanged

NextPrune == PruneTick \/ PruneCutoff \/ PruneDelete \/ WriteTimestamp \/ WriteInsert

SpecPrune == InitPrune /\ [][NextPrune]_vars

\* the rows with a timestamp at or after c, in their order
NotOlderThan(tbl, c) == LET Recent(r) == r.timestamp >= c IN SelectSeq(tbl, Recent)

\* C26: the DELETE of a prune with cutoff c leaves exactly the samples with
\* timestamp >= c; every other step, the writes that run between the steps of
\* a prune included, keeps every stored sample; and no step changes the
\* machine table or the ledgers.
C26_PruneKeepsRecent ==
    [][/\ IF procs["pruner"].pc = "delete" /\ procs'["pruner"].pc = "idle"
          THEN gpu_samples' = NotOlderThan(gpu_samples, procs["pruner"].cutoff)
          ELSE /\ Len(gpu_samples') >= Len(gpu_samples)
               /\ SubSeq(gpu_samples', 1, Len(gpu_samples)) = gpu_samples
       /\ UNCHANGED <<instances, costs, account_costs, notifications>>]_vars

\* a prune that removed samples while a write was between its two steps,
\* and the sample of that write is stored
C26_Witness ==
    /\ procs["pruner"].removed > 0
    /\ procs["pruner"].during_write
    /\ procs["writer"].pc = "idle"
    /\ procs["writer"].count = 1
    /\ gpu_samples # <<>>
    /\ gpu_samples[Len(gpu_samples)].timestamp = procs["writer"].timestamp
    /\ \E n \in 1..Len(gpu_samples) :
           gpu_samples[n].timestamp = procs["pruner"].cutoff

-----------------------------------------------------------------------------
(* Two runs of the budget enforcer at the same time *)

Enforcers == {"run-1", "run-2"}

\* alice has an endpoint and a limit the totals of this state machine stay
\* within, so enforce_budget_for_key returns after the milestone step
RaceBudgets ==
    [defaults |-> [limit_cents |-> 9000, milestone_interval |-> 2000],
     keys |-> [k \in {"alice"} |->
                  [limit_cents |-> <<12000>>,
                   discord_webhook |-> "https://discord.example/hook"]]]

\* the ledger the monitor has written before the two runs start
RaceLedgers == {[k \in {"alice"} |-> cents] : cents \in {1500, 8500, 10500}}

IdleEnforcer == [pc |-> "idle", keys |-> <<>>, costs |-> EmptyTable,
                 last_notified |-> 0, runs |-> 0]

InitRace ==
    /\ now = 1
    /\ instances = EmptyTable
    /\ gpu_samples = <<>>
    /\ costs \in RaceLedgers
    /\ notifications = EmptyTable
    /\ budgets = RaceBudgets
    /\ MIN_RUNTIME_MIN = 0
    /\ IDLE_SHUTDOWN_MIN = MaxIdleMinutes
    /\ idle_pass = NoIdlePass
    /\ budget_pass = NoBudgetPass
    /\ sent = EmptyTable
    /\ ledger_log = <<>>
    /\ account_costs = EmptyTable
    /\ monitor_pass = NoMonitorPass
    /\ procs = [p \in Enforcers |-> IdleEnforcer]

RaceUnchanged ==
    UNCHANGED <<now, instances, gpu_samples, budgets, MIN_RUNTIME_MIN,
                IDLE_SHUTDOWN_MIN, idle_pass, budget_pass, ledger_log,
                account_costs, monitor_pass>>

\* main: the ledger is read and the loop over its keys starts
EnforcerStart(p) ==
    /\ procs[p].pc = "idle"
    /\ procs[p].runs < MaxPasses
    /\ procs' = [procs EXCEPT ![p].pc = "read",
                              ![p].keys = get_all_costs(costs),
                              ![p].costs = costs,
                              ![p].runs = @ + 1]
    /\ UNCHANGED <<costs, notifications, sent>>
    /\ RaceUnchanged

\* check_milestone_notification up to the test of the milestone: the
\* notification row is read
EnforcerRead(p) ==
    /\ procs[p].pc = "read"
    /\ procs[p].keys # <<>>
    /\ LET ssh_key == Head(procs[p].keys)
           milestone_interval == budgets.defaults.milestone_interval
           last_notified == LastNotified(notifications, ssh_key)
           crossed == MilestoneCrossed(
                          MilestoneOf(procs[p].costs[ssh_key], milestone_interval),
                          MilestoneOf(last_notified, milestone_interval))
       IN  procs' = [procs EXCEPT
                        ![p].last_notified = last_notified,
                        ![p].pc = IF get_webhook_for_key(budgets, ssh_key) # "" /\ crossed
                                  THEN "post" ELSE "rest"]
    /\ UNCHANGED <<costs, notifications, sent>>
    /\ RaceUnchanged

\* check_milestone_notification: send_discord_notification
EnforcerPost(p) ==
    /\ procs[p].pc = "post"
    /\ \E ok \in BOOLEAN :
        LET ssh_key == Head(procs[p].keys)
            spent_cents == procs[p].costs[ssh_key]
            limit == get_limit_for_key(budgets, ssh_key)
            send == send_discord_notification(get_webhook_for_key(budgets, ssh_key),
                                              ssh_key, spent_cents, limit,
                                              spent_cents > limit, ok)
        IN  /\ sent' = [k \in DOMAIN sent \cup {ssh_key} |->
                           IF k = ssh_key
                           THEN SentOf(k) \o Tag(send.posts, "milestone")
                           ELSE sent[k]]
            /\ SumFailed(sent', DOMAIN sent') <= MaxFailedDeliveries
            /\ procs' = [procs EXCEPT ![p].pc = IF send.ret THEN "write" ELSE "rest"]
    /\ UNCHANGED <<costs, notifications>>
    /\ RaceUnchanged

\* check_milestone_notification: db.update_budget_notification
EnforcerWrite(p) ==
    /\ procs[p].pc = "write"
    /\ LET ssh_key == Head(procs[p].keys)
       IN  notifications' = update_budget_notification(notifications, ssh_key,
                                                       procs[p].costs[ssh_key])
    /\ procs' = [procs EXCEPT ![p].pc = "rest"]
    /\ UNCHANGED <<costs, sent>>
    /\ RaceUnchanged

\* enforce_budget_for_key after the milestone step, for a key within its
\* limit: return 0, and the loop goes on to the next key
EnforcerRest(p) ==
    /\ procs[p].pc = "rest"
    /\ LET ssh_key == Head(procs[p].keys)
       IN  WithinBudget(procs[p].costs[ssh_key], get_limit_for_key(budgets, ssh_key))
    /\ procs' = [procs EXCEPT ![p].keys = Tail(@), ![p].pc = "read"]
    /\ UNCHANGED <<costs, notifications, sent>>
    /\ RaceUnchanged

\* main: the loop is over
EnforcerDone(p) ==
    /\ procs[p].pc = "read"
    /\ procs[p].keys = <<>>
    /\ procs' = [procs EXCEPT ![p].pc = "idle"]
    /\ UNCHANGED <<costs, notifications, sent>>
    /\ RaceUnchanged

EnforcerStep ==
    \E p \in Enforcers :
        \/ EnforcerStart(p)
        \/ EnforcerRead(p)
        \/ EnforcerPost(p)
        \/ EnforcerWrite(p)
        \/ EnforcerRest(p)
        \/ EnforcerDone(p)

NextRace == EnforcerStep

SpecRace == InitRace /\ [][NextRace]_vars

\* C29: whatever way the steps of two runs of the enforcer interleave, no
\* milestone bucket of a key gets two delivered milestone notifications.
C29_MilestoneStepAtomic ==
    \A k \in DOMAIN costs :
        OncePerBucket(SelectSeq(Milestones(k), WasDelivered))

-----------------------------------------------------------------------------
(* Remote utilization query: get_gpu_utilization of monitor.py *)

\* int(line.strip()) raises ValueError: a character that is no digit
LineRaises(line) == \E n \in 1..Len(line) : line[n] \notin DOMAIN DigitOf

\* [... for line in output.split("\n") if line.strip()]
NonBlank(output) == LET Kept(line) == line # <<>> IN SelectSeq(output, Kept)

\* every line that parses is kept, the others are dropped
get_gpu_utilization_partial(ip, result) ==
    IF ip = "" THEN <<>>
    ELSE IF result.exit_code # 0 THEN <<>>
    ELSE LET Parses(line) == ~LineRaises(line)
             lines == SelectSeq(NonBlank(result.output), Parses)
         IN  [n \in 1..Len(lines) |-> ParseDigits(lines[n], 0)]

\* get_gpu_utilization(instance), result being what ssh_command returned:
\* the exit code (-1 for a timeout or any exception) and the output as lines
get_gpu_utilization(ip, result) ==
    IF ip = "" THEN <<>>
    ELSE IF result.exit_code # 0 THEN <<>>
    ELSE LET lines == NonBlank(result.output)
         IN  IF \E n \in 1..Len(lines) : LineRaises(lines[n]) THEN <<>>
             ELSE [n \in 1..Len(lines) |-> ParseDigits(lines[n], 0)]

-----------------------------------------------------------------------------
(* Account-aware store operations *)

\* upsert_instance(conn, inst, account=account_name)
upsert_account_instance(tbl, instance, account, t) ==
    LET upserted == upsert_instance(tbl, instance, t)
    IN  [i \in DOMAIN upserted |->
            IF i = instance.id
            THEN [a \in DOMAIN upserted[i] \cup {"account"} |->
                     IF a = "account" THEN account ELSE upserted[i][a]]
            ELSE upserted[i]]

RECURSIVE UpsertAccount(_, _, _, _)
UpsertAccount(tbl, listing, account, t) ==
    IF listing = {} THEN tbl
    ELSE LET inst == CHOOSE x \in listing : TRUE
         IN  UpsertAccount(upsert_account_instance(tbl, inst, account, t),
                           listing \ {inst}, account, t)

\* get_active_instances(conn, account=account_name)
get_active_account_instances(tbl, account) ==
    {i \in get_active_instances(tbl) : tbl[i].account = account}

\* get_uninitialized_instances(conn, account=account_name)
get_uninitialized_account_instances(tbl, account) ==
    {i \in get_uninitialized_instances(tbl) : tbl[i].account = account}

-----------------------------------------------------------------------------
(* One run of the monitor, step by step: main of monitor.py *)

Accounts == {"acct-a", "acct-b"}

\* the order of the accounts in accounts.yaml
AccountOrders == {<<"acct-a", "acct-b">>, <<"acct-b", "acct-a">>}

RunRecord(id, status, gpus, key) ==
    [id |-> id, name |-> NamePlain, ip |-> "10.0.0.1", status |-> status,
     gpus |-> gpus, price_cents_per_hour |-> 120, ssh_key_names |-> <<key>>]

\* what the provider lists for an account
RunListings ==
    [a \in Accounts |->
        IF a = "acct-a"
        THEN {{RunRecord("i-1", "active", 2, "alice"), RunRecord("i-2", "active", 2, "alice")},
              {RunRecord("i-1", "terminated", 2, "alice"), RunRecord("i-2", "active", 2, "alice")}}
        ELSE {{RunRecord("i-3", "active", 1, "bob")}}]

\* what ssh_command returns for the nvidia-smi query
RemoteResults ==
    {[exit_code |-> 0, output |-> << <<"0">>, <<"5">>, <<>> >>],
     [exit_code |-> 0, output |-> << <<"0">>, <<"N", "A">> >>],
     [exit_code |-> 255, output |-> << <<"0">> >>],
     [exit_code |-> -1, output |-> <<>>]}

\* the query of a machine failed: unreachable, timeout, non-zero exit, or a
\* line of the output that is no number
QueryFailed(result) ==
    \/ result.exit_code # 0
    \/ \E n \in 1..Len(result.output) :
           /\ result.output[n] # <<>>
           /\ \E c \in 1..Len(result.output[n]) :
                  result.output[n][c] \notin {"0", "1", "2", "3", "4", "5", "6", "7", "8", "9"}

IdleRun == [pc |-> "idle", order |-> <<>>, idx |-> 0, failed |-> {},
            trace |-> <<>>, listing |-> {}, active |-> {}, pending |-> <<>>,
            attempted |-> {}, queried |-> {}, unanswered |-> {},
            inits |-> EmptyTable, refused |-> {},
            init_calls |-> EmptyTable, sample_calls |-> EmptyTable,
            started |-> 0, runs |-> 0, prunes |-> 0]

\* the clock at the first run of the state machine, a day after the store
\* was created
RunEpoch == RETENTION_TICKS + 2

\* the store after a day of runs: i-0 was terminated a day ago and its last
\* samples are about to pass the retention window
InitRun ==
    /\ now = RunEpoch
    /\ instances = [i \in {"i-0"} |->
                       [name |-> NamePlain, ip |-> "10.0.0.9", status |-> "terminated",
                        gpu_count |-> 1, hourly_cost_cents |-> 120,
                        ssh_key_names |-> <<"alice">>, first_seen |-> 1,
                        last_seen |-> 3, initialized |-> 1, account |-> "acct-a"]]
    /\ gpu_samples = <<[instance_id |-> "i-0", gpu_index |-> 0, utilization |-> 0,
                        timestamp |-> 1],
                       [instance_id |-> "i-0", gpu_index |-> 0, utilization |-> 0,
                        timestamp |-> 3]>>
    /\ costs = [k \in {"alice"} |-> 4]
    /\ notifications = EmptyTable
    /\ budgets = MonitorBudgets
    /\ MIN_RUNTIME_MIN = 0
    /\ IDLE_SHUTDOWN_MIN = MaxIdleMinutes
    /\ idle_pass = NoIdlePass
    /\ budget_pass = NoBudgetPass
    /\ sent = EmptyTable
    /\ ledger_log = <<>>
    /\ account_costs = [a \in {"acct-a"} |-> 4]
    /\ monitor_pass = NoMonitorPass
    /\ procs = [p \in {"monitor"} |-> IdleRun]

\* the outcome of a pass of a policy stands until the store or the clock
\* changes
RunUnchanged ==
    /\ idle_pass' = NoIdlePass
    /\ budget_pass' = NoBudgetPass
    /\ UNCHANGED <<notifications, budgets, MIN_RUNTIME_MIN, IDLE_SHUTDOWN_MIN,
                   sent, ledger_log, monitor_pass>>

Step(name, account, ok) == [step |-> name, account |-> account, ok |-> ok]

\* the statements that follow the loop over the accounts
AfterLoopUnlessFailed(failed) == IF failed = {} THEN "config" ELSE "idle"

AfterLoop(failed) == "config"

\* the end of one iteration of the loop over the accounts, by return or by
\* the except clause
AfterAccount(run, failed) ==
    IF run.idx < Len(run.order)
    THEN [run EXCEPT !.pc = "list", !.idx = @ + 1, !.failed = failed]
    ELSE [run EXCEPT !.pc = AfterLoop(failed), !.failed = failed]

\* the exception of process_account leaves main
ExceptionPropagates(run, account) ==
    [run EXCEPT !.pc = "idle", !.failed = @ \cup {account},
                !.trace = Append(@, Step("list", account, FALSE))]

\* main: except Exception as e: log(...), and the loop goes on
ExceptionCaught(run, account) ==
    AfterAccount([run EXCEPT !.trace = Append(@, Step("list", account, FALSE))],
                 run.failed \cup {account})

\* the ids of a set in the order the store returns them
RECURSIVE InOrder(_)
InOrder(ids) ==
    IF ids = {} THEN <<>>
    ELSE LET i == CHOOSE x \in ids : TRUE IN <<i>> \o InOrder(ids \ {i})

\* the number of calls made per instance, after one more call for each of ids
Counted(calls, ids) ==
    [i \in DOMAIN calls \cup ids |->
        (IF i \in DOMAIN calls THEN calls[i] ELSE 0) + (IF i \in ids THEN 1 ELSE 0)]

\* the instance that was refused is tried again at once
RetryAfterRefusal(pending) == pending

\* the for loop over the uninitialized instances goes on to the next one
\* when initialize_machine returned False
AfterRefusal(pending) == Tail(pending)

\* main: cron starts a run
RunStart ==
    /\ procs["monitor"].pc = "idle"
    /\ now - RunEpoch < MaxRunTicks
    /\ procs["monitor"].runs > 0 => now >= procs["monitor"].started + 2
    /\ \E order \in AccountOrders :
        procs' = [procs EXCEPT !["monitor"] =
                     [@ EXCEPT !.pc = "list", !.order = order, !.idx = 1,
                               !.failed = {}, !.trace = <<>>, !.attempted = {},
                               !.init_calls = EmptyTable, !.sample_calls = EmptyTable,
                               !.started = now, !.runs = @ + 1, !.prunes = 0]]
    /\ UNCHANGED <<now, instances, gpu_samples, costs, account_costs>>
    /\ RunUnchanged

\* process_account: lambda_api.list_instances(api_key) returns or raises
RunList ==
    /\ procs["monitor"].pc = "list"
    /\ LET run == procs["monitor"]
           account == run.order[run.idx]
       IN  \/ procs' = [procs EXCEPT !["monitor"] = ExceptionCaught(run, account)]
           \/ \E listing \in RunListings[account] :
                 /\ \A inst \in listing :
                        (inst.id \in DOMAIN instances /\ inst.status = "active")
                            => instances[inst.id].status = "active"
                 /\ procs' = [procs EXCEPT !["monitor"] =
                                 [run EXCEPT !.pc = "upsert", !.listing = listing,
                                             !.trace = Append(@, Step("list", account, TRUE))]]
    /\ UNCHANGED <<now, instances, gpu_samples, costs, account_costs>>
    /\ RunUnchanged

\* process_account: the upsert loop
RunUpsert ==
    /\ procs["monitor"].pc = "upsert"
    /\ LET run == procs["monitor"]
           account == run.order[run.idx]
       IN  /\ instances' = UpsertAccount(instances, run.listing, account, now)
           /\ procs' = [procs EXCEPT !["monitor"] =
                           [run EXCEPT !.pc = "accrue",
                                       !.trace = Append(@, Step("upsert", account, TRUE))]]
    /\ UNCHANGED <<now, gpu_samples, costs, account_costs>>
    /\ RunUnchanged

\* process_account: the active instances are read and update_costs runs
RunAccrue ==
    /\ procs["monitor"].pc = "accrue"
    /\ LET run == procs["monitor"]
           account == run.order[run.idx]
           active == get_active_account_instances(instances, account)
           ledgers == update_costs(costs, account_costs, instances, active, account)
       IN  /\ costs' = ledgers.costs
           /\ account_costs' = ledgers.account_costs
           /\ procs' = [procs EXCEPT !["monitor"] =
                           [run EXCEPT !.pc = "initialize", !.active = active,
                                       !.trace = Append(@, Step("accrue", account, TRUE))]]
    /\ UNCHANGED <<now, instances, gpu_samples>>
    /\ RunUnchanged

\* process_account: the uninitialized instances are read
RunInitialize ==
    /\ procs["monitor"].pc = "initialize"
    /\ LET run == procs["monitor"]
           account == run.order[run.idx]
           uninitialized == get_uninitialized_account_instances(instances, account)
           pending == InOrder({i \in uninitialized : instances[i].ip # ""})
       IN  procs' = [procs EXCEPT !["monitor"] =
                        [run EXCEPT !.pc = IF pending = <<>> THEN "sample" ELSE "attempt",
                                    !.pending = pending,
                                    !.trace = Append(@, Step("initialize", account, TRUE))]]
    /\ UNCHANGED <<now, instances, gpu_samples, costs, account_costs>>
    /\ RunUnchanged

\* process_account: initialize_machine(inst) returns True or False
RunAttempt ==
    /\ procs["monitor"].pc = "attempt"
    /\ LET run == procs["monitor"]
           i == Head(run.pending)
       IN  \E ok \in BOOLEAN :
           \E rest \in {IF ok THEN run.pending ELSE AfterRefusal(run.pending)} :
               procs' = [procs EXCEPT !["monitor"] =
                            [run EXCEPT !.attempted = @ \cup {i},
                                        !.refused = IF ok THEN @ ELSE @ \cup {i},
                                        !.init_calls = Counted(@, {i}),
                                        !.pending = rest,
                                        !.pc = IF ok THEN "mark"
                                               ELSE IF rest = <<>>
                                               THEN "sample" ELSE "attempt"]]
    /\ UNCHANGED <<now, instances, gpu_samples, costs, account_costs>>
    /\ RunUnchanged

\* process_account: db.mark_initialized(conn, inst["id"])
RunMark ==
    /\ procs["monitor"].pc = "mark"
    /\ LET run == procs["monitor"]
           i == Head(run.pending)
       IN  /\ instances' = mark_initialized(instances, i)
           /\ procs' = [procs EXCEPT !["monitor"] =
                           [run EXCEPT !.pending = Tail(@),
                                       !.inits = [k \in DOMAIN @ \cup {i} |->
                                                     IF k \in DOMAIN @
                                                     THEN @[k] + (IF k = i THEN 1 ELSE 0)
                                                     ELSE 1],
                                       !.pc = IF Tail(run.pending) = <<>>
                                              THEN "sample" ELSE "attempt"]]
    /\ UNCHANGED <<now, gpu_samples, costs, account_costs>>
    /\ RunUnchanged

\* process_account: the sampling loop over the active instances
RunSample ==
    /\ procs["monitor"].pc = "sample"
    /\ LET run == procs["monitor"]
           account == run.order[run.idx]
           to_sample == {i \in run.active : instances[i].ip # ""}
       IN  \E results \in [to_sample -> RemoteResults] :
               /\ gpu_samples' =
                      SampleAll(gpu_samples, to_sample,
                                [i \in to_sample |->
                                    [gpu_utils |-> get_gpu_utilization(instances[i].ip,
                                                                       results[i]),
                                     drift |-> 0]],
                                now)
               /\ procs' = [procs EXCEPT !["monitor"] =
                               AfterAccount([run EXCEPT
                                                !.queried = to_sample,
                                                !.sample_calls = Counted(@, to_sample),
                                                !.unanswered =
                                                    {i \in to_sample : QueryFailed(results[i])},
                                                !.trace = Append(@, Step("sample", account, TRUE))],
                                            run.failed)]
    /\ UNCHANGED <<now, instances, costs, account_costs>>
    /\ RunUnchanged

\* main: update_ssh_config and db.export_to_json
RunConfig ==
    /\ procs["monitor"].pc = "config"
    /\ procs' = [procs EXCEPT !["monitor"].pc = "prune",
                              !["monitor"].trace = Append(@, Step("config", "", TRUE))]
    /\ UNCHANGED <<now, instances, gpu_samples, costs, account_costs>>
    /\ RunUnchanged

\* main: db.cleanup_old_samples(conn, older_than_hours=24)
RunPrune ==
    /\ procs["monitor"].pc = "prune"
    /\ gpu_samples' = cleanup_old_samples(gpu_samples, now - RETENTION_TICKS)
    /\ procs' = [procs EXCEPT !["monitor"].pc = "idle",
                              !["monitor"].prunes = @ + 1,
                              !["monitor"].trace = Append(@, Step("prune", "", TRUE))]
    /\ UNCHANGED <<now, instances, costs, account_costs>>
    /\ RunUnchanged

\* the time until cron starts the next run, one minute after the last
RunWait ==
    /\ procs["monitor"].pc = "idle"
    /\ procs["monitor"].runs > 0
    /\ now < procs["monitor"].started + 2
    /\ procs["monitor"].started + 2 - RunEpoch < MaxRunTicks
    /\ now' = procs["monitor"].started + 2
    /\ UNCHANGED <<instances, gpu_samples, costs, account_costs, procs>>
    /\ RunUnchanged

RunStep ==
    \/ RunStart
    \/ RunList
    \/ RunUpsert
    \/ RunAccrue
    \/ RunInitialize
    \/ RunAttempt
    \/ RunMark
    \/ RunSample
    \/ RunConfig
    \/ RunPrune

NextRun == RunStep \/ RunWait

SpecRun == InitRun /\ [][NextRun]_vars

\* a run that has started goes on: main is sequential code without waits
SpecRunFair == SpecRun /\ WF_vars(RunStep)

-----------------------------------------------------------------------------
(* Properties of a run of the monitor *)

\* the steps of the current run that belong to one account
StepsOf(account) ==
    LET Mine(e) == e.account = account IN SelectSeq(procs["monitor"].trace, Mine)

\* the five steps of process_account were taken for the account in this run
\* and its active rows carry the time of the run
FullyProcessed(account) ==
    /\ StepsOf(account) = <<Step("list", account, TRUE), Step("upsert", account, TRUE),
                            Step("accrue", account, TRUE),
                            Step("initialize", account, TRUE),
                            Step("sample", account, TRUE)>>
    /\ \A i \in DOMAIN instances :
           instances[i].account = account /\ instances[i].status = "active"
               => instances[i].last_seen = procs["monitor"].started

RunOver == procs["monitor"].pc = "idle" /\ procs["monitor"].runs > 0

\* C21: when a run of the monitor is over, every account whose listing call
\* raised has only that failed call in the run, and every other account was
\* fully processed, whichever account came first.
C21_AccountIsolation ==
    RunOver =>
        \A account \in Accounts :
            IF account \in procs["monitor"].failed
            THEN StepsOf(account) = <<Step("list", account, FALSE)>>
            ELSE FullyProcessed(account)

\* a run in which the first account failed and the second was processed and
\* sampled
C21_Witness ==
    /\ RunOver
    /\ procs["monitor"].order = <<"acct-b", "acct-a">>
    /\ procs["monitor"].failed = {"acct-b"}
    /\ FullyProcessed("acct-a")
    /\ \E n \in 1..Len(gpu_samples) :
           /\ gpu_samples[n].instance_id = "i-2"
           /\ gpu_samples[n].timestamp = procs["monitor"].started

\* the steps a run takes for the accounts from position n on, given the
\* accounts that failed
RECURSIVE ExpectedSteps(_, _, _)
ExpectedSteps(order, failed, n) ==
    IF n > Len(order)
    THEN <<Step("config", "", TRUE), Step("prune", "", TRUE)>>
    ELSE (IF order[n] \in failed
          THEN <<Step("list", order[n], FALSE)>>
          ELSE <<Step("list", order[n], TRUE), Step("upsert", order[n], TRUE),
                 Step("accrue", order[n], TRUE), Step("initialize", order[n], TRUE),
                 Step("sample", order[n], TRUE)>>)
         \o ExpectedSteps(order, failed, n + 1)

IsPrefix(a, b) == Len(a) <= Len(b) /\ SubSeq(b, 1, Len(a)) = a

ValuesOfRun(i) ==
    LET Mine(r) == r.instance_id = i /\ r.timestamp = procs["monitor"].started
        rows == SelectSeq(gpu_samples, Mine)
    IN  [n \in 1..Len(rows) |-> rows[n].utilization]

SampleStepTaken ==
    LET trace == procs["monitor"].trace
    IN  Len(trace) > 0 /\ trace[Len(trace)].step = "sample"

\* C25: after the sampling loop of an account, a machine whose query failed
\* (non-zero exit, timeout, or a line that is no number) has no sample of
\* this run at all, and every other machine of the loop has its samples.
C25_TolerantSampling ==
    SampleStepTaken =>
        \A i \in procs["monitor"].queried :
            IF i \in procs["monitor"].unanswered
            THEN ValuesOfRun(i) = <<>>
            ELSE ValuesOfRun(i) = <<0, 5>>

\* the query of i-1 failed, the one of i-2, which came after or before it in
\* the same loop, was stored
C25_Witness ==
    /\ SampleStepTaken
    /\ procs["monitor"].queried = {"i-1", "i-2"}
    /\ procs["monitor"].unanswered = {"i-1"}
    /\ ValuesOfRun("i-1") = <<>>
    /\ ValuesOfRun("i-2") = <<0, 5>>

RunIds == {"i-1", "i-2", "i-3"}

\* the initialization loop of the current account is over
InitLoopOver ==
    LET trace == procs["monitor"].trace
    IN  /\ procs["monitor"].pc = "sample"
        /\ trace[Len(trace)].step = "initialize"

\* initialize_machine returned True for i and the row is about to be marked
Succeeded(i) == procs["monitor"].pc = "mark" /\ Head(procs["monitor"].pending) = i

Marked(i) == i \in DOMAIN instances /\ instances[i].initialized = 1

InitCount(i) ==
    IF i \in DOMAIN procs["monitor"].inits THEN procs["monitor"].inits[i] ELSE 0

\* C24: a machine whose initialization has never succeeded is stored as
\* uninitialized; in every pass that reaches the initialization loop of its
\* account, every active machine of the account with an address is
\* initialized already or is attempted in that pass, and only uninitialized
\* machines are attempted; no machine has more than one successful
\* initialization; and a successful attempt leads to the row being marked.
C24_InitializationRetry ==
    /\ [](\A i \in DOMAIN instances :
             /\ InitCount(i) <= 1
             /\ (i \in RunIds /\ InitCount(i) = 0) => instances[i].initialized = 0)
    /\ [](InitLoopOver =>
             \A i \in DOMAIN instances :
                 (/\ instances[i].account =
                        procs["monitor"].order[procs["monitor"].idx]
                  /\ instances[i].status = "active"
                  /\ instances[i].ip # "")
                     => (instances[i].initialized = 1 \/ i \in procs["monitor"].attempted))
    /\ [](procs["monitor"].pc \in {"attempt", "mark"} =>
             instances[Head(procs["monitor"].pending)].initialized = 0)
    /\ \A i \in RunIds : Succeeded(i) ~> Marked(i)

\* i-3 was refused in the first pass, attempted again in the second and is
\* now marked, after one successful initialization
C24_Witness ==
    /\ procs["monitor"].runs = 2
    /\ "i-3" \in procs["monitor"].refused
    /\ "i-3" \in procs["monitor"].attempted
    /\ InitCount("i-3") = 1
    /\ instances["i-3"].initialized = 1

\* the monitor together with the two policies, each started by cron on its own
\* in this state machine a policy reads the store between two runs of the
\* monitor
FleetIdlePass == procs["monitor"].pc = "idle" /\ TerminateIdleMain

FleetBudgetPass == procs["monitor"].pc = "idle" /\ EnforceBudgetsMain

NextFleet == RunStep \/ RunWait \/ FleetIdlePass \/ FleetBudgetPass

SpecFleet == InitRun /\ [][NextFleet]_vars

-----------------------------------------------------------------------------
(* Machines whose status has left 'active' *)

Retired(i) == i \in DOMAIN instances /\ instances[i].status # "active"

SamplesOf(i) == LET Mine(r) == r.instance_id = i IN SelectSeq(gpu_samples, Mine)

\* a pass of a policy looked at the machine
PolicyTouched(i) ==
    \/ Checked(i)
    \/ /\ budget_pass.ran
       /\ \E k \in DOMAIN budget_pass.out :
              i \in budget_pass.out[k].selected \cup budget_pass.out[k].skipped

\* the active machines of the account being processed whose first key is k
ChargedTo(k) ==
    {i \in DOMAIN instances :
        /\ instances[i].status = "active"
        /\ instances[i].account = procs["monitor"].order[procs["monitor"].idx]
        /\ instances[i].hourly_cost_cents # 0
        /\ instances[i].ssh_key_names[1] = k}

\* what every step leaves of a machine that is not active before and after
\* it, apart from its samples: the monitor neither lists it as active or as
\* uninitialized nor charges it, the policies do not look at it, and no
\* ledger total goes down
RetiredLeftAlone(i) ==
    /\ ~PolicyTouched(i)'
    /\ i \notin procs'["monitor"].active
    /\ procs'["monitor"].pc = "attempt" =>
           \A n \in 1..Len(procs'["monitor"].pending) : procs'["monitor"].pending[n] # i
    /\ (procs["monitor"].pc = "accrue" /\ procs'["monitor"].pc = "initialize") =>
           \A k \in DOMAIN costs' :
               costs'[k] = LedgerTotal(costs, k) + SumFloorPerMinute(ChargedTo(k))
    /\ procs'["monitor"].pc = "accrue" => i \notin procs'["monitor"].active
    /\ \A k \in DOMAIN costs : k \in DOMAIN costs' /\ costs'[k] >= costs[k]

\* C28 as claimed: no step changes the samples of a machine that is not
\* active, adds none and removes none.
C28_RetiredSamplesUnchanged ==
    [][\A i \in DOMAIN instances :
           (Retired(i) /\ Retired(i)') =>
               /\ RetiredLeftAlone(i)
               /\ SamplesOf(i)' = SamplesOf(i)]_vars

\* C28: a machine that is not active gets no new sample and no new cost and
\* is looked at by no policy; its samples stay as they are except that the
\* prune of a run removes those older than the retention window; its ledger
\* contributions stay.
C28_RetiredKeepsRecentSamples ==
    [][\A i \in DOMAIN instances :
           (Retired(i) /\ Retired(i)') =>
               /\ RetiredLeftAlone(i)
               /\ \/ SamplesOf(i)' = SamplesOf(i)
                  \/ /\ procs["monitor"].pc = "prune"
                     /\ SamplesOf(i)' = NotOlderThan(SamplesOf(i), now - RETENTION_TICKS)]_vars

\* i-1 was sampled in the first run and terminated before the second; after
\* the second run it has the samples of the first run only, both policies
\* have run without looking at it, and the samples i-0 had from a day ago
\* are gone
C28_Witness ==
    /\ RunOver
    /\ procs["monitor"].runs = 2
    /\ "i-1" \in DOMAIN instances
    /\ Retired("i-1")
    /\ SamplesOf("i-1") # <<>>
    /\ \A n \in 1..Len(SamplesOf("i-1")) : SamplesOf("i-1")[n].timestamp = RunEpoch
    /\ SamplesOf("i-0") = <<>>
    /\ idle_pass.ran
    /\ budget_pass.ran
    /\ ~PolicyTouched("i-1")

-----------------------------------------------------------------------------
(* group_samples_by_timestamp applied to stored samples *)

\* the samples of one instance as a query may hand them over, in any order
GroupInputs ==
    UNION {[1..n -> [instance_id : {"i-1"}, gpu_index : {0},
                     utilization : {0, 5}, timestamp : 1..MaxSampleTime]] :
           n \in 0..MaxSamples}

NotGrouped == [called |-> FALSE, grouped |-> <<>>]

InitGroup ==
    /\ now = MaxSampleTime
    /\ instances = EmptyTable
    /\ gpu_samples \in GroupInputs
    /\ costs = EmptyTable
    /\ notifications = EmptyTable
    /\ budgets = NoBudgets
    /\ MIN_RUNTIME_MIN = 0
    /\ IDLE_SHUTDOWN_MIN = MaxIdleMinutes
    /\ idle_pass = NoIdlePass
    /\ budget_pass = NoBudgetPass
    /\ sent = EmptyTable
    /\ ledger_log = <<>>
    /\ account_costs = EmptyTable
    /\ monitor_pass = NoMonitorPass
    /\ procs = [p \in {"terminator", "report"} |-> NotGrouped]

GroupUnchanged ==
    UNCHANGED <<now, instances, gpu_samples, costs, notifications, budgets,
                MIN_RUNTIME_MIN, IDLE_SHUTDOWN_MIN, idle_pass, budget_pass,
                sent, ledger_log, account_costs, monitor_pass>>

\* terminate_idle_instances.py groups the samples
TerminatorGroups ==
    /\ ~procs["terminator"].called
    /\ procs' = [procs EXCEPT !["terminator"] =
                    [called |-> TRUE,
                     grouped |-> group_samples_by_timestamp(gpu_samples)]]
    /\ GroupUnchanged

\* show_instances.py groups the samples
ReportGroups ==
    /\ ~procs["report"].called
    /\ procs' = [procs EXCEPT !["report"] =
                    [called |-> TRUE,
                     grouped |-> report_group_samples_by_timestamp(gpu_samples)]]
    /\ GroupUnchanged

NextGroup == TerminatorGroups \/ ReportGroups

SpecGroup == InitGroup /\ [][NextGroup]_vars

\* the input samples that fall in the tolerance interval of a time point
MembersOf(point) ==
    {n \in 1..Len(gpu_samples) :
        /\ gpu_samples[n].timestamp >= point.timestamp
        /\ gpu_samples[n].timestamp - point.timestamp <= 1}

IsPartition(grouped) ==
    /\ \A n \in 1..Len(gpu_samples) :
           Cardinality({k \in 1..Len(grouped) : n \in MembersOf(grouped[k])}) = 1
    /\ \A k \in 1..Len(grouped) :
           /\ grouped[k].gpu_count = Cardinality(MembersOf(grouped[k]))
           /\ \E n \in MembersOf(grouped[k]) :
                  gpu_samples[n].timestamp = grouped[k].timestamp
           /\ grouped[k].all_zero <=>
                  \A n \in MembersOf(grouped[k]) : gpu_samples[n].utilization = 0
    /\ \A k \in 1..Len(grouped) - 1 :
           grouped[k + 1].timestamp - grouped[k].timestamp > 1

\* C32: the time points returned by either copy of group_samples_by_timestamp
\* partition the samples: each sample lies in the 30 s interval that starts at
\* the timestamp of exactly one time point, gpu_count is the number of samples
\* in that interval, the timestamp is that of one of them, all_zero holds
\* exactly when all of them read 0, and consecutive time points are more than
\* 30 s apart, in increasing order.
C32_GroupingPartitions ==
    \A p \in {"terminator", "report"} :
        procs[p].called => IsPartition(procs[p].grouped)

\* three samples 30 s apart from one to the next, handed over out of order:
\* two time points, the first with two samples of which one is busy
C32_Witness ==
    /\ procs["terminator"].called
    /\ procs["report"].called
    /\ Len(gpu_samples) = 3
    /\ gpu_samples[1].timestamp = 3
    /\ gpu_samples[2].timestamp = 1
    /\ gpu_samples[3].timestamp = 2
    /\ gpu_samples[3].utilization = 5
    /\ Len(procs["terminator"].grouped) = 2
    /\ procs["terminator"].grouped[1].gpu_count = 2
    /\ ~procs["terminator"].grouped[1].all_zero
    /\ Len(procs["report"].grouped) = 2

-----------------------------------------------------------------------------
(* The report against the idle policy *)

\* C33: for every active machine the report's will_terminate is the value
\* check_and_terminate_idle returns in a dry run on the same store at the
\* same time.
C33_ReportAgreesWithPolicy ==
    \A i \in get_active_instances(instances) :
        get_instance_stats(i).will_terminate
            <=> check_and_terminate_idle(i, TRUE).ret

-----------------------------------------------------------------------------
(* Termination of a pass *)

RunStarted == procs["monitor"].pc # "idle"

CallsOf(calls, i) == IF i \in DOMAIN calls THEN calls[i] ELSE 0

-----------------------------------------------------------------------------
(* Machines that are no longer in the provider's listing *)

\* a stored machine the latest run of the monitor did not find in the listing
Vanished(i) == monitor_pass.ran /\ i \in DOMAIN instances /\ i \notin monitor_pass.listed

\* C34: a machine that is gone from the provider's listing is charged to no
\* ledger by the run that did not find it, and a budget pass after that run
\* requests no reclamation of it.
C34_VanishedCostsNothing ==
    \A i \in DOMAIN instances :
        Vanished(i) =>
            /\ i \notin Billed
            /\ budget_pass.ran =>
                   \A k \in DOMAIN budget_pass.out : i \notin budget_pass.out[k].selected

-----------------------------------------------------------------------------
(* Attribution of machines to keys *)

\* the active machines without the over-budget marker whose cost is added to
\* the ledger of k: k is the first key they list
ChargedUnmarked(k) ==
    {i \in Unmarked(k) : instances[i].ssh_key_names[1] = k}

\* C35: the machines a pass selects for reclamation for a key over its limit
\* are the active unmarked machines whose first-listed key it is.
C35_ReclaimsWhatItCharges ==
    budget_pass.ran =>
        \A k \in DOMAIN budget_pass.out :
            costs[k] > budget_pass.out[k].limit =>
                budget_pass.out[k].selected = ChargedUnmarked(k)

-----------------------------------------------------------------------------
(* Notifications whose delivery fails *)

FailedMilestoneInPass(ssh_key) ==
    \E a \in 1..Len(PassPosts(ssh_key)) :
        PassPosts(ssh_key)[a].origin = "milestone" /\ ~PassPosts(ssh_key)[a].delivered

\* the milestone step of a pass over the present state would post for the key
MilestoneDue(ssh_key) ==
    /\ HasWebhook(ssh_key)
    /\ MilestoneCrossed(Bucket(costs[ssh_key]),
                        Bucket(LastNotified(notifications, ssh_key)))

\* the pass a step completes posts a milestone notification for the bucket
\* the key's total is in
MilestonePosted(ssh_key) ==
    /\ budget_pass'.ran
    /\ ssh_key \in DOMAIN budget_pass'.out
    /\ \E a \in 1..Len(budget_pass'.out[ssh_key].posts) :
           /\ budget_pass'.out[ssh_key].posts[a].origin = "milestone"
           /\ Bucket(budget_pass'.out[ssh_key].posts[a].spent_cents) =
                  Bucket(costs[ssh_key])

\* an over-budget post that failed is the only over-budget post of the key
FailedAlertNotRepeated(ssh_key) ==
    (\E a \in 1..Len(Alerts(ssh_key)) : ~Alerts(ssh_key)[a].delivered) =>
        Len(Alerts(ssh_key)) = 1

\* C36 as stated: after a pass in which the milestone post of a key failed,
\* last_notified is what it was before the pass and the milestone is still
\* due; a pass that posted the over-budget notification, delivered or not,
\* left last_notified at the total; a failed over-budget post is never
\* followed by another.
C36_FailedMilestoneAlwaysRetried ==
    \A k \in DOMAIN costs :
        /\ (PassRan(k) /\ FailedMilestoneInPass(k)) =>
               /\ LastNotified(notifications, k) = budget_pass.last_before[k]
               /\ MilestoneDue(k)
        /\ (PassRan(k) /\ AlertInPass(k)) => LastNotified(notifications, k) = costs[k]
        /\ FailedAlertNotRepeated(k)

\* C36 (amended): after a pass in which the milestone post of a key failed
\* and no over-budget notification was posted, last_notified is what it was
\* before the pass and the milestone is still due; whenever a milestone is
\* due, the next pass posts it; a pass that posted the over-budget
\* notification, delivered or not, left last_notified at the total, so that
\* neither the over-budget notification nor a milestone of that pass that
\* failed is posted again.
C36_FailedDeliveries ==
    /\ [](\A k \in DOMAIN costs :
             /\ (PassRan(k) /\ FailedMilestoneInPass(k) /\ ~AlertInPass(k)) =>
                    /\ LastNotified(notifications, k) = budget_pass.last_before[k]
                    /\ MilestoneDue(k)
             /\ (PassRan(k) /\ AlertInPass(k)) =>
                    /\ LastNotified(notifications, k) = costs[k]
                    /\ ~MilestoneDue(k)
             /\ FailedAlertNotRepeated(k))
    /\ [][\A k \in DOMAIN costs :
             (MilestoneDue(k) /\ budget_pass'.ran /\ k \in DOMAIN budget_pass'.out)
                 => MilestonePosted(k)]_vars

\* a milestone post that failed and was posted again by the next pass, then
\* an over-budget post that failed, and a later pass over the key, still
\* over budget with an active instance, that posts nothing
C36_Witness ==
    /\ PassRan("alice") /\ HasWebhook("alice")
    /\ Len(Milestones("alice")) = 2
    /\ ~Milestones("alice")[1].delivered
    /\ Bucket(Milestones("alice")[1].spent_cents) = Bucket(Milestones("alice")[2].spent_cents)
    /\ Len(Alerts("alice")) = 1
    /\ ~Alerts("alice")[1].delivered
    /\ costs["alice"] > budget_pass.out["alice"].limit
    /\ ActiveOfKey("alice") # {}
    /\ PassPosts("alice") = <<>>

-----------------------------------------------------------------------------
(* Dry runs of the budget policy *)

\* C37: a dry run of the enforcer calls the provider for no instance, leaves
\* every key's notification state as it was before the run, and returns for
\* each key the number of instances a real run would call the provider for.
C37_DryRunNoEffect ==
    (budget_pass.ran /\ budget_pass.dry_run) =>
        \A k \in DOMAIN budget_pass.out :
            /\ budget_pass.out[k].called = {}
            /\ budget_pass.out[k].posted = {}
            /\ budget_pass.out[k].ret = Cardinality(budget_pass.out[k].selected)
            /\ LastNotified(notifications, k) = budget_pass.last_before[k]

-----------------------------------------------------------------------------
(* Two runs of the budget enforcer while the monitor adds to the ledger *)

\* the amount the monitor adds to a key's total while the enforcers run
RaceIncrements == {2000}

\* the monitor's update_costs between two steps of the enforcers
RaceUpdateCost ==
    \E ssh_key \in DOMAIN costs :
        \E cents \in RaceIncrements :
            /\ costs[ssh_key] + cents <= MaxCents
            /\ costs' = update_cost(costs, ssh_key, cents)
            /\ UNCHANGED <<notifications, sent, procs>>
            /\ RaceUnchanged

InitRaceLedger ==
    /\ InitRace
    /\ costs = [k \in {"alice"} |-> 8500]

NextRaceLedger == EnforcerStep \/ RaceUpdateCost

SpecRaceLedger == InitRaceLedger /\ [][NextRaceLedger]_vars

\* C38: the last_notified of a key never exceeds the key's ledger total,
\* never decreases, and changes only after a notification for the key was
\* delivered.
C38_LastNotifiedMonotone ==
    /\ [](\A k \in DOMAIN costs : LastNotified(notifications, k) <= costs[k])
    /\ [][\A k \in DOMAIN costs :
             /\ LastNotified(notifications', k) >= LastNotified(notifications, k)
             /\ LastNotified(notifications', k) # LastNotified(notifications, k) =>
                    \E a \in 1..Len(SentOf(k)') :
                        SentOf(k)'[a].spent_cents = LastNotified(notifications', k)]_vars

-----------------------------------------------------------------------------
(* The account ledger against the key ledgers *)

\* the sum of a ledger's totals
RECURSIVE SumLedger(_, _)
SumLedger(tbl, keys) ==
    IF keys = {} THEN 0
    ELSE LET k == CHOOSE x \in keys : TRUE
         IN  tbl[k] + SumLedger(tbl, keys \ {k})

\* what the latest run added to the account's total and to the totals of
\* the keys
AccountAdded ==
    LedgerTotal(account_costs, MonitorAccount)
        - LedgerTotal(monitor_pass.account_before, MonitorAccount)
KeysAdded ==
    SumLedger(costs, DOMAIN costs)
        - SumLedger(monitor_pass.costs_before, DOMAIN monitor_pass.costs_before)

\* C39: a run of the monitor adds to the account's total at least what it
\* adds to the totals of all keys together, and the account's total is never
\* below the sum of the totals of the keys.
C39_AccountCoversKeys ==
    /\ monitor_pass.ran => AccountAdded >= KeysAdded
    /\ LedgerTotal(account_costs, MonitorAccount) >= SumLedger(costs, DOMAIN costs)

\* a second run that charged two keys and added more to the account than to
\* the keys together
C39_Witness ==
    /\ monitor_pass.ran
    /\ monitor_pass.count = 2
    /\ \A k \in MonitorKeys :
           k \in DOMAIN costs /\ costs[k] > LedgerTotal(monitor_pass.costs_before, k)
    /\ KeysAdded > 0
    /\ AccountAdded > KeysAdded

====
